---- MODULE Spec2Model ----
(***************************************************************************)
(* The retrieval adapters of behind_bars_bot as a state machine:            *)
(*   GitHubReadmeFetcher (github_readme_tool.py)  -- actions GH_...         *)
(*   Context7Search      (context7_tool.py)       -- actions C7_...         *)
(*   KnowledgeBase       (knowledge_base.py)      -- actions KB_...         *)
(* and the three tool handlers of bot.py that call them (SpecBot).          *)
(*                                                                         *)
(* Scheduling.  The coroutines run on one asyncio event loop: the code of   *)
(* a coroutine between two awaits that suspend is one step.  The index      *)
(* build runs in an executor thread (loop.run_in_executor) in parallel to   *)
(* the loop, so each of its writes to the adapter is a step of its own.     *)
(*                                                                         *)
(* Texts are numbers: EmptyText is "", 1..MaxText are distinct non-empty    *)
(* documents, NoText is None.  A chunk list, an engine and an index are     *)
(* abstracted to the text they were built from (src) and, for an engine,    *)
(* how far add_documents has loaded it (load).                              *)
(*                                                                         *)
(* The ranking of _rag_search, the keyword search and the snippet           *)
(* extraction are computed on strings, which are sequences of characters.   *)
(* calc holds one call of these helpers: its arguments, its locals and its  *)
(* value (SpecRank, SpecScore, SpecSnippet).                                *)
(***************************************************************************)
EXTENDS Integers, Sequences, FiniteSets, TLC

MaxText == 2

NoText == -1

EmptyText == 0

Texts == EmptyText..MaxText

Tasks == {"t1", "t2"}

MaxCalls == 4

\* the tool invocations of a run of the bot
MaxInvocations == 2

\* the topic and tokens arguments the callers of Context7Search use
TopicArgs == {""}

TokenBudgets == {1, 2}

\* topic or "default"  (context7_tool.py lines 86, 126, 168)
TopicKey(topic) == IF topic = "" THEN "default" ELSE topic

\* the topic the tool handlers pass when the topic is the query itself
\* (bot.py lines 122, 187)
QueryTopic == "query"

TopicKeys == {TopicKey(topic) : topic \in TopicArgs \cup {QueryTopic}}

CacheKeys == TopicKeys \X TokenBudgets

VARIABLES
    callers,    \* the tasks that issue calls on the adapter
    gh,         \* GitHubReadmeFetcher fields
    c7,         \* Context7Search fields
    kb,         \* KnowledgeBase fields
    tasks,      \* per task: the call it runs, its locals and where it is suspended
    hist,       \* with a single caller: what its previous call was and returned
    ncalls,     \* the number of calls issued so far
    calc        \* the arguments and the value of a call of a ranking, scoring or
                \* snippet helper, in the specifications of these helpers

vars == <<callers, gh, c7, kb, tasks, hist, ncalls, calc>>

\* no helper call is being looked at
NoCalc == [fn |-> "none"]

----------------------------------------------------------------------------
(* Values *)

NoEngine == [src |-> NoText, load |-> "none"]

NewEngine(content) == [src |-> content, load |-> "empty"]

NoResult == [kind |-> "none", text |-> NoText, load |-> "none"]

TextResult(text) == [kind |-> "text", text |-> text, load |-> "none"]

DoneResult == [kind |-> "done", text |-> NoText, load |-> "none"]

EmptyResult == [kind |-> "empty", text |-> NoText, load |-> "none"]

RaisedResult == [kind |-> "raise", text |-> NoText, load |-> "none"]

KeywordResult(content) == [kind |-> "keyword", text |-> content, load |-> "none"]

RagResult(engine) == [kind |-> "rag", text |-> engine.src, load |-> engine.load]

IdleTask ==
    [pc |-> "idle", op |-> "none", stage |-> "none", topic |-> "", tokens |-> 0,
     use_cache |-> TRUE, content |-> NoText, changed |-> "no", req |-> FALSE,
     outcome |-> "none", builds |-> 0, skipped |-> FALSE, qlen |-> 0,
     result |-> NoResult, handler |-> "none", adapter |-> "none", reply |-> "none",
     cleared |-> FALSE]

NoHist ==
    [valid |-> FALSE, topic |-> "", tokens |-> 0, ret |-> NoText, content |-> NoText,
     req |-> FALSE, changed |-> "no", builds |-> 0, stored |-> FALSE, ready |-> FALSE,
     use_cache |-> TRUE]

\* content_changed = cached != content, remembering whether a text was cached
Changed(cached, content) ==
    IF cached = content THEN "no" ELSE IF cached = NoText THEN "first" ELSE "differs"

Returned(tk, result) == [tk EXCEPT !.pc = "ret", !.result = result]

\* the executor job of a task is submitted and has not finished
InFlight(tk) == tk.pc \in {"build", "add", "adding", "loaded"}

Sequential == Cardinality(callers) = 1

\* clear_cache runs: the calls that are under way have started before it
Cleared(tks) ==
    [t \in Tasks |-> IF tks[t].pc = "idle" THEN tks[t] ELSE [tks[t] EXCEPT !.cleared = TRUE]]

\* clear_cache and set_cache_enabled are synchronous calls on the event loop: they
\* run while no result is being handed over, between any two steps of the other
\* calls when callers run concurrently, between two calls when the calls of the
\* run are issued one after another.
Callable == \A t \in Tasks : tasks[t].pc # "ret" /\ (Sequential => tasks[t].pc = "idle")

\* The fields of a task that only record what its call has done so far (use_cache,
\* req, changed, builds, skipped, qlen, and tokens once the cache key is no longer
\* needed)
\* are kept in the runs with a single caller, where the claims about successive
\* calls are checked; with concurrent callers they are reset.
Track(tk) ==
    IF Sequential THEN tk
    ELSE [tk EXCEPT !.use_cache = TRUE, !.req = FALSE, !.changed = "no", !.builds = 0,
                    !.skipped = FALSE,
                    !.qlen = IF tk.handler = "none" THEN 0 ELSE @,
                    !.tokens = IF tk.pc = "http" THEN @ ELSE 0]

----------------------------------------------------------------------------
(* GitHubReadmeFetcher *)

GH_Init ==
    [cache |-> NoText, cache_enabled |-> TRUE, rag_ready |-> FALSE,
     building_index |-> FALSE, chunks |-> NoText, search_engine |-> NoEngine]

\* search, lines 141-146, up to the await inside _rag_search (line 212)
GH_search_index(g, tk) ==
    IF ~g.rag_ready \/ g.search_engine.load = "none"
    THEN [a |-> g, t |-> Returned(tk, KeywordResult(tk.content))]
    ELSE [a |-> g, t |-> [tk EXCEPT !.pc = "rag"]]

\* _ensure_rag_ready (lines 151-159) as called by search at line 139, with the
\* lines search runs next when it returns without suspending
GH_search_ensure(g, tk) ==
    IF g.building_index
    THEN GH_search_index(g, [tk EXCEPT !.skipped = TRUE])
    ELSE [a |-> [g EXCEPT !.building_index = TRUE],
          t |-> [tk EXCEPT !.pc = "build", !.stage = "search", !.builds = @ + 1]]

\* fetch_readme has returned `text` to its caller: the caller of the adapter,
\* or search (lines 135-139)
GH_fetched(g, tk, text) ==
    IF tk.op = "fetch"
    THEN [a |-> g, t |-> Returned(tk, TextResult(text))]
    ELSE IF text = EmptyText
         THEN [a |-> g, t |-> Returned(tk, EmptyResult)]
         ELSE GH_search_ensure(g, [tk EXCEPT !.content = text])

\* fetch_readme, lines 80-82 (cache hit) or up to the request of line 93
GH_fetch_begin(g, tk) ==
    IF tk.use_cache /\ g.cache_enabled /\ g.cache # NoText
    THEN GH_fetched(g, [tk EXCEPT !.content = g.cache], g.cache)
    ELSE [a |-> g, t |-> [tk EXCEPT !.pc = "http", !.stage = "fetch", !.req = TRUE]]

\* fetch_readme, lines 97-111: the response text has arrived
GH_fetch_store(g, tk, content) ==
    LET content_changed == g.cache # content
        g1 == IF g.cache_enabled THEN [g EXCEPT !.cache = content] ELSE g
        t1 == [tk EXCEPT !.content = content, !.changed = Changed(g.cache, content)]
    IN  IF content_changed \/ ~g.rag_ready
        THEN IF g1.building_index
             THEN GH_fetched(g1, [t1 EXCEPT !.skipped = TRUE], content)
             ELSE [a |-> [g1 EXCEPT !.building_index = TRUE],
                   t |-> [t1 EXCEPT !.pc = "build", !.stage = "fetch", !.builds = @ + 1]]
        ELSE GH_fetched(g1, t1, content)

GH_FetchReadme(t, use_cache) ==
    /\ t \in callers /\ tasks[t].pc = "idle" /\ ncalls < MaxCalls
    /\ ncalls' = ncalls + 1
    /\ LET r == GH_fetch_begin(gh, [IdleTask EXCEPT !.op = "fetch", !.use_cache = use_cache])
       IN  gh' = r.a /\ tasks' = [tasks EXCEPT ![t] = Track(r.t)]
    /\ UNCHANGED <<calc, callers, c7, kb, hist>>

\* search, lines 131-135: tk.qlen is the length of query.strip()
GH_search_begin(g, tk) ==
    IF tk.qlen = 0 THEN [a |-> g, t |-> Returned(tk, EmptyResult)]
    ELSE GH_fetch_begin(g, tk)

GH_Search(t, qlen) ==
    /\ t \in callers /\ tasks[t].pc = "idle" /\ ncalls < MaxCalls
    /\ ncalls' = ncalls + 1
    /\ LET r == GH_search_begin(gh, [IdleTask EXCEPT !.op = "search", !.qlen = qlen])
       IN  gh' = r.a /\ tasks' = [tasks EXCEPT ![t] = Track(r.t)]
    /\ UNCHANGED <<calc, callers, c7, kb, hist>>

\* the GET of lines 93-95 completes with a text
GH_Response(t, content) ==
    /\ tasks[t].pc = "http"
    /\ LET r == GH_fetch_store(gh, tasks[t], content)
       IN  gh' = r.a /\ tasks' = [tasks EXCEPT ![t] = Track(r.t)]
    /\ UNCHANGED <<calc, callers, c7, kb, hist, ncalls>>

\* GH_ResponseError with an except clause that misses the failure (a timeout is
\* no aiohttp.ClientError): the exception leaves fetch_readme
GH_ResponseError_Propagates(t) ==
    /\ tasks[t].pc = "http"
    /\ tasks' = [tasks EXCEPT ![t] = Track(Returned(@, RaisedResult))]
    /\ UNCHANGED <<calc, callers, gh, c7, kb, hist, ncalls>>

\* the GET fails (ClientError, HTTP status, timeout): lines 113-118
GH_ResponseError(t) ==
    /\ tasks[t].pc = "http"
    /\ LET r == GH_fetched(gh, tasks[t], EmptyText)
       IN  gh' = r.a /\ tasks' = [tasks EXCEPT ![t] = Track(r.t)]
    /\ UNCHANGED <<calc, callers, c7, kb, hist, ncalls>>

\* _build_rag_index in the executor, lines 165-198: chunk, embed, install a new
\* empty engine.  outcome is what the chunker and the embedder do.
GH_BuildPrepare(t, outcome) ==
    /\ tasks[t].pc = "build"
    /\ LET content == tasks[t].content IN
       IF content = EmptyText
       THEN /\ tasks' = [tasks EXCEPT ![t].pc = "built"]
            /\ gh' = gh
       ELSE IF outcome # "ok"
       THEN /\ tasks' = [tasks EXCEPT ![t].pc = "built", ![t].outcome = outcome]
            /\ gh' = gh
       ELSE /\ tasks' = [tasks EXCEPT ![t].pc = "add"]
            /\ gh' = [gh EXCEPT !.search_engine = NewEngine(content), !.chunks = content]
    /\ UNCHANGED <<calc, callers, c7, kb, hist, ncalls>>

\* line 199: self._search_engine is read and add_documents starts loading it
GH_BuildAddBegin(t, raises) ==
    /\ tasks[t].pc = "add"
    /\ IF gh.search_engine.load = "none" \/ raises
       THEN /\ tasks' = [tasks EXCEPT ![t].pc = "built", ![t].outcome = "raise"]
            /\ gh' = gh
       ELSE /\ tasks' = [tasks EXCEPT ![t].pc = "adding"]
            /\ gh' = [gh EXCEPT !.search_engine.load = "partial"]
    /\ UNCHANGED <<calc, callers, c7, kb, hist, ncalls>>

\* lines 199-203: add_documents finishes (or raises part way)
GH_BuildAddEnd(t, raises) ==
    /\ tasks[t].pc = "adding"
    /\ IF raises
       THEN /\ tasks' = [tasks EXCEPT ![t].pc = "built", ![t].outcome = "raise"]
            /\ gh' = gh
       ELSE /\ tasks' = [tasks EXCEPT ![t].pc = "loaded"]
            /\ gh' = IF gh.search_engine.load = "none" THEN gh
                     ELSE [gh EXCEPT !.search_engine.load = "full"]
    /\ UNCHANGED <<calc, callers, c7, kb, hist, ncalls>>

\* line 204
GH_BuildReady(t) ==
    /\ tasks[t].pc = "loaded"
    /\ tasks' = [tasks EXCEPT ![t].pc = "built"]
    /\ gh' = [gh EXCEPT !.rag_ready = TRUE]
    /\ UNCHANGED <<calc, callers, c7, kb, hist, ncalls>>

\* _ensure_rag_ready resumes after the executor future: lines 160-161, then the
\* caller's code up to its next await (fetch_readme's except clause of line 116
\* when the build raised)
GH_BuildResume(t) ==
    /\ tasks[t].pc = "built"
    /\ LET g1 == [gh EXCEPT !.building_index = FALSE]
           tk == [tasks[t] EXCEPT !.outcome = "none"]
           r == IF tasks[t].outcome = "raise"
                THEN IF tk.stage = "fetch"
                     THEN GH_fetched(g1, tk, EmptyText)
                     ELSE [a |-> g1, t |-> Returned(tk, RaisedResult)]
                ELSE IF tk.stage = "fetch"
                     THEN GH_fetched(g1, tk, tk.content)
                     ELSE GH_search_index(g1, tk)
       IN  gh' = r.a /\ tasks' = [tasks EXCEPT ![t] = Track(r.t)]
    /\ UNCHANGED <<calc, callers, c7, kb, hist, ncalls>>

\* GH_RagSearch without the try of lines 145-149: the exception leaves search
GH_RagSearch_Unguarded(t, raises) ==
    /\ tasks[t].pc = "rag"
    /\ tasks' = [tasks EXCEPT ![t] =
                   IF raises \/ gh.search_engine.load = "none"
                   THEN Returned([@ EXCEPT !.outcome = "raise"], RaisedResult)
                   ELSE Returned(@, RagResult(gh.search_engine))]
    /\ UNCHANGED <<calc, callers, gh, c7, kb, hist, ncalls>>

\* _rag_search after the await of line 212: lines 216-236, and search's
\* except clause (lines 147-149) when they raise (outcome records that they did)
GH_RagSearch(t, raises) ==
    /\ tasks[t].pc = "rag"
    /\ tasks' = [tasks EXCEPT ![t] =
                   IF raises \/ gh.search_engine.load = "none"
                   THEN Returned([@ EXCEPT !.outcome = "raise"], KeywordResult(@.content))
                   ELSE Returned(@, RagResult(gh.search_engine))]
    /\ UNCHANGED <<calc, callers, gh, c7, kb, hist, ncalls>>

GH_ClearCache ==
    /\ Callable
    /\ ncalls < MaxCalls
    /\ ncalls' = ncalls + 1
    /\ gh' = [gh EXCEPT !.cache = NoText, !.rag_ready = FALSE, !.chunks = NoText,
                        !.search_engine = NoEngine]
    /\ tasks' = Cleared(tasks)
    /\ hist' = NoHist
    /\ UNCHANGED <<calc, callers, c7, kb>>

GH_SetCacheEnabled(enabled) ==
    /\ Callable
    /\ ncalls < MaxCalls
    /\ ncalls' = ncalls + 1
    /\ gh' = [gh EXCEPT !.cache_enabled = enabled]
    /\ hist' = NoHist
    /\ UNCHANGED <<calc, callers, c7, kb, tasks>>

----------------------------------------------------------------------------
(* Context7Search *)

NoIndex == [ready |-> FALSE, engine |-> NoEngine, chunks |-> NoText]

BuiltIndex(content) ==
    [ready |-> TRUE, engine |-> [src |-> content, load |-> "full"], chunks |-> content]

C7_Init ==
    [cache |-> [k \in CacheKeys |-> NoText], cache_enabled |-> TRUE,
     rag_indices |-> [k \in TopicKeys |-> NoIndex],
     building_index |-> [k \in TopicKeys |-> FALSE]]

C7_cache_key(tk) == <<TopicKey(tk.topic), tk.tokens>>

\* search, lines 171-177, up to the await inside _rag_search (line 249); the
\* engine is held in a local from line 248 on
C7_search_index(c, tk) ==
    LET rag_index == c.rag_indices[TopicKey(tk.topic)] IN
    IF ~rag_index.ready \/ rag_index.engine.load = "none"
    THEN [a |-> c, t |-> Returned(tk, KeywordResult(tk.content))]
    ELSE [a |-> c, t |-> [tk EXCEPT !.pc = "rag", !.result = RagResult(rag_index.engine)]]

\* _ensure_rag_ready (lines 182-190) as called by search at line 169
C7_search_ensure(c, tk) ==
    LET topic_key == TopicKey(tk.topic) IN
    IF c.building_index[topic_key]
    THEN C7_search_index(c, [tk EXCEPT !.skipped = TRUE])
    ELSE [a |-> [c EXCEPT !.building_index[topic_key] = TRUE],
          t |-> [tk EXCEPT !.pc = "build", !.stage = "search", !.builds = @ + 1]]

\* fetch has returned `text` to its caller: the caller of the adapter, or
\* search (lines 164-169)
C7_fetched(c, tk, text) ==
    IF tk.op = "fetch"
    THEN [a |-> c, t |-> Returned(tk, TextResult(text))]
    ELSE IF text = EmptyText
         THEN [a |-> c, t |-> Returned(tk, EmptyResult)]
         ELSE C7_search_ensure(c, [tk EXCEPT !.content = text])

\* fetch, lines 86-91 (cache hit) or up to the request of line 111
C7_fetch_begin(c, tk) ==
    LET cache_key == C7_cache_key(tk) IN
    IF tk.use_cache /\ c.cache_enabled /\ c.cache[cache_key] # NoText
    THEN C7_fetched(c, [tk EXCEPT !.content = c.cache[cache_key]], c.cache[cache_key])
    ELSE [a |-> c, t |-> [tk EXCEPT !.pc = "http", !.stage = "fetch", !.req = TRUE]]

\* fetch, lines 115-130: the response text has arrived
C7_fetch_store(c, tk, content) ==
    LET cache_key == C7_cache_key(tk)
        topic_key == TopicKey(tk.topic)
        content_changed == c.cache[cache_key] # content
        c1 == IF c.cache_enabled THEN [c EXCEPT !.cache[cache_key] = content] ELSE c
        t1 == [tk EXCEPT !.content = content,
                         !.changed = Changed(c.cache[cache_key], content)]
    IN  IF content_changed \/ ~c.rag_indices[topic_key].ready
        THEN IF c1.building_index[topic_key]
             THEN C7_fetched(c1, [t1 EXCEPT !.skipped = TRUE], content)
             ELSE [a |-> [c1 EXCEPT !.building_index[topic_key] = TRUE],
                   t |-> [t1 EXCEPT !.pc = "build", !.stage = "fetch", !.builds = @ + 1]]
        ELSE C7_fetched(c1, t1, content)

C7_Fetch(t, topic, tokens, use_cache) ==
    /\ t \in callers /\ tasks[t].pc = "idle" /\ ncalls < MaxCalls
    /\ ncalls' = ncalls + 1
    /\ LET r == C7_fetch_begin(c7, [IdleTask EXCEPT !.op = "fetch", !.topic = topic,
                                       !.tokens = tokens, !.use_cache = use_cache])
       IN  c7' = r.a /\ tasks' = [tasks EXCEPT ![t] = Track(r.t)]
    /\ UNCHANGED <<calc, callers, gh, kb, hist>>

\* search, lines 160-164: tk.qlen is the length of query.strip()
C7_search_begin(c, tk) ==
    IF tk.qlen < 2 THEN [a |-> c, t |-> Returned(tk, EmptyResult)]
    ELSE C7_fetch_begin(c, tk)

C7_Search(t, qlen, topic, tokens, use_cache) ==
    /\ t \in callers /\ tasks[t].pc = "idle" /\ ncalls < MaxCalls
    /\ ncalls' = ncalls + 1
    /\ LET r == C7_search_begin(c7, [IdleTask EXCEPT !.op = "search", !.qlen = qlen,
                                        !.topic = topic, !.tokens = tokens,
                                        !.use_cache = use_cache])
       IN  c7' = r.a /\ tasks' = [tasks EXCEPT ![t] = Track(r.t)]
    /\ UNCHANGED <<calc, callers, gh, kb, hist>>

\* the GET of lines 111-113 completes with a text
C7_Response(t, content) ==
    /\ tasks[t].pc = "http"
    /\ LET r == C7_fetch_store(c7, tasks[t], content)
       IN  c7' = r.a /\ tasks' = [tasks EXCEPT ![t] = Track(r.t)]
    /\ UNCHANGED <<calc, callers, gh, kb, hist, ncalls>>

\* C7_ResponseError that caches the "" it returns under the key of the call
C7_ResponseError_CachesEmpty(t) ==
    /\ tasks[t].pc = "http"
    /\ LET c1 == IF c7.cache_enabled
                 THEN [c7 EXCEPT !.cache[C7_cache_key(tasks[t])] = EmptyText]
                 ELSE c7
           r == C7_fetched(c1, tasks[t], EmptyText)
       IN  c7' = r.a /\ tasks' = [tasks EXCEPT ![t] = Track(r.t)]
    /\ UNCHANGED <<calc, callers, gh, kb, hist, ncalls>>

\* the GET fails (ClientError, HTTP status, timeout): lines 132-137
C7_ResponseError(t) ==
    /\ tasks[t].pc = "http"
    /\ LET r == C7_fetched(c7, tasks[t], EmptyText)
       IN  c7' = r.a /\ tasks' = [tasks EXCEPT ![t] = Track(r.t)]
    /\ UNCHANGED <<calc, callers, gh, kb, hist, ncalls>>

\* _build_rag_index in the executor, lines 196-238: everything is local until
\* the assignment of line 234
C7_Build(t, outcome) ==
    /\ tasks[t].pc = "build"
    /\ LET content == tasks[t].content
           topic_key == TopicKey(tasks[t].topic) IN
       IF content = EmptyText
       THEN /\ tasks' = [tasks EXCEPT ![t].pc = "built"]
            /\ c7' = c7
       ELSE IF outcome # "ok"
       THEN /\ tasks' = [tasks EXCEPT ![t].pc = "built", ![t].outcome = outcome]
            /\ c7' = c7
       ELSE /\ tasks' = [tasks EXCEPT ![t].pc = "built"]
            /\ c7' = [c7 EXCEPT !.rag_indices[topic_key] = BuiltIndex(content)]
    /\ UNCHANGED <<calc, callers, gh, kb, hist, ncalls>>

\* _ensure_rag_ready resumes after the executor future: lines 191-192, then the
\* caller's code up to its next await (fetch's except clause of line 135 when
\* the build raised)
C7_BuildResume(t) ==
    /\ tasks[t].pc = "built"
    /\ LET c1 == [c7 EXCEPT !.building_index[TopicKey(tasks[t].topic)] = FALSE]
           tk == [tasks[t] EXCEPT !.outcome = "none"]
           r == IF tasks[t].outcome = "raise"
                THEN IF tk.stage = "fetch"
                     THEN C7_fetched(c1, tk, EmptyText)
                     ELSE [a |-> c1, t |-> Returned(tk, RaisedResult)]
                ELSE IF tk.stage = "fetch"
                     THEN C7_fetched(c1, tk, tk.content)
                     ELSE C7_search_index(c1, tk)
       IN  c7' = r.a /\ tasks' = [tasks EXCEPT ![t] = Track(r.t)]
    /\ UNCHANGED <<calc, callers, gh, kb, hist, ncalls>>

\* _rag_search after the await of line 249: lines 253-273, and search's
\* except clause (lines 178-180) when they raise
C7_RagSearch(t, raises) ==
    /\ tasks[t].pc = "rag"
    /\ tasks' = [tasks EXCEPT ![t] =
                   IF raises
                   THEN Returned([@ EXCEPT !.outcome = "raise"], KeywordResult(@.content))
                   ELSE Returned(@, @.result)]
    /\ UNCHANGED <<calc, callers, gh, c7, kb, hist, ncalls>>

C7_ClearCache ==
    /\ Callable
    /\ ncalls < MaxCalls
    /\ ncalls' = ncalls + 1
    /\ c7' = [c7 EXCEPT !.cache = [k \in CacheKeys |-> NoText],
                        !.rag_indices = [k \in TopicKeys |-> NoIndex],
                        !.building_index = [k \in TopicKeys |-> FALSE]]
    /\ tasks' = Cleared(tasks)
    /\ hist' = NoHist
    /\ UNCHANGED <<calc, callers, gh, kb>>

C7_SetCacheEnabled(enabled) ==
    /\ Callable
    /\ ncalls < MaxCalls
    /\ ncalls' = ncalls + 1
    /\ c7' = [c7 EXCEPT !.cache_enabled = enabled]
    /\ hist' = NoHist
    /\ UNCHANGED <<calc, callers, gh, kb, tasks>>

----------------------------------------------------------------------------
(* KnowledgeBase.  dir is the directory at knowledge_path: NoText when the path  *)
(* does not exist, EmptyText when no *.md file gives text, else the documents.  *)
(* index is the document list (EmptyText is []), reads counts the passes over   *)
(* the directory, dense_unavailable records that a build has logged "Dense       *)
(* embeddings unavailable" (line 167).                                           *)

KB_Init(dir, use_embeddings) ==
    [dir |-> dir, use_embeddings |-> use_embeddings, index |-> EmptyText,
     initialized |-> FALSE, rag_ready |-> FALSE, building_index |-> FALSE,
     chunks |-> NoText, search_engine |-> NoEngine, reads |-> 0,
     dense_unavailable |-> FALSE]

\* search, lines 122-127, up to the await inside _rag_search (line 185)
KB_search_index(k, tk) ==
    IF ~k.rag_ready \/ k.search_engine.load = "none"
    THEN [a |-> k, t |-> Returned(tk, KeywordResult(k.index))]
    ELSE [a |-> k, t |-> [tk EXCEPT !.pc = "rag"]]

\* _ensure_rag_ready, lines 135-142; stage names the caller (initialize, line 96,
\* or search, line 120)
KB_ensure(k, tk, stage) ==
    IF ~k.use_embeddings \/ k.rag_ready \/ k.building_index \/ k.index = EmptyText
    THEN [a |-> k, t |-> tk, started |-> FALSE]
    ELSE [a |-> [k EXCEPT !.building_index = TRUE],
          t |-> [tk EXCEPT !.pc = "build", !.stage = stage, !.builds = @ + 1],
          started |-> TRUE]

\* search, lines 114-124
KB_searching(k, tk) ==
    IF k.index = EmptyText THEN [a |-> k, t |-> Returned(tk, EmptyResult)]
    ELSE IF ~k.use_embeddings THEN [a |-> k, t |-> Returned(tk, KeywordResult(k.index))]
    ELSE LET e == KB_ensure(k, tk, "search") IN
         IF e.started THEN [a |-> e.a, t |-> e.t]
         ELSE KB_search_index(k, [tk EXCEPT !.skipped = k.building_index])

\* initialize has returned to its caller
KB_initialized(k, tk) ==
    IF tk.op = "init" THEN [a |-> k, t |-> Returned(tk, DoneResult)]
    ELSE KB_searching(k, tk)

\* initialize, lines 62-75, up to the first file read
KB_initialize_begin(k, tk) ==
    IF k.initialized THEN KB_initialized(k, tk)
    ELSE IF k.dir = NoText THEN KB_initialized([k EXCEPT !.initialized = TRUE], tk)
    ELSE [a |-> [k EXCEPT !.reads = @ + 1], t |-> [tk EXCEPT !.pc = "read", !.stage = "init"]]

\* initialize, lines 91-96, after the last file read
KB_initialize_end(k, tk) ==
    LET k1 == [k EXCEPT !.index = k.dir, !.initialized = TRUE] IN
    IF k1.use_embeddings
    THEN LET e == KB_ensure(k1, tk, "init") IN
         IF e.started THEN [a |-> e.a, t |-> e.t] ELSE KB_initialized(k1, tk)
    ELSE KB_initialized(k1, tk)

KB_Initialize(t) ==
    /\ t \in callers /\ tasks[t].pc = "idle" /\ ncalls < MaxCalls
    /\ ncalls' = ncalls + 1
    /\ LET r == KB_initialize_begin(kb, [IdleTask EXCEPT !.op = "init"])
       IN  kb' = r.a /\ tasks' = [tasks EXCEPT ![t] = Track(r.t)]
    /\ UNCHANGED <<calc, callers, gh, c7, hist>>

\* search, lines 108-112: tk.qlen is the length of query.strip()
KB_search_begin(k, tk) ==
    IF tk.qlen = 0 THEN [a |-> k, t |-> Returned(tk, EmptyResult)]
    ELSE IF ~k.initialized THEN KB_initialize_begin(k, tk)
    ELSE KB_searching(k, tk)

KB_Search(t, qlen) ==
    /\ t \in callers /\ tasks[t].pc = "idle" /\ ncalls < MaxCalls
    /\ ncalls' = ncalls + 1
    /\ LET r == KB_search_begin(kb, [IdleTask EXCEPT !.op = "search", !.qlen = qlen])
       IN  kb' = r.a /\ tasks' = [tasks EXCEPT ![t] = Track(r.t)]
    /\ UNCHANGED <<calc, callers, gh, c7, hist>>

\* the reads of lines 73-89 are done
KB_ReadDone(t) ==
    /\ tasks[t].pc = "read"
    /\ LET r == KB_initialize_end(kb, tasks[t])
       IN  kb' = r.a /\ tasks' = [tasks EXCEPT ![t] = Track(r.t)]
    /\ UNCHANGED <<calc, callers, gh, c7, hist, ncalls>>

\* KB_BuildPrepare returning at line 169 without line 168, as the remote adapters do
KB_BuildPrepare_EmbeddingsLeftOn(t, outcome) ==
    /\ tasks[t].pc = "build"
    /\ IF kb.rag_ready \/ ~kb.use_embeddings
       THEN /\ tasks' = [tasks EXCEPT ![t].pc = "built"]
            /\ kb' = kb
       ELSE IF outcome \in {"nochunks", "raise"}
       THEN /\ tasks' = [tasks EXCEPT ![t].pc = "built", ![t].outcome = outcome]
            /\ kb' = kb
       ELSE IF outcome = "nodense"
       THEN /\ tasks' = [tasks EXCEPT ![t].pc = "built", ![t].outcome = outcome]
            /\ kb' = [kb EXCEPT !.dense_unavailable = TRUE]
       ELSE /\ tasks' = [tasks EXCEPT ![t].pc = "add"]
            /\ kb' = [kb EXCEPT !.chunks = kb.index,
                                !.search_engine = IF @.load = "none" THEN NewEngine(kb.index)
                                                  ELSE @]
    /\ UNCHANGED <<calc, callers, gh, c7, hist, ncalls>>

\* _build_rag_index in the executor, lines 147-176: chunk and embed the documents,
\* keep or create the engine.  The embedder gives one dimension, so an engine
\* that exists is kept (line 173).
KB_BuildPrepare(t, outcome) ==
    /\ tasks[t].pc = "build"
    /\ IF kb.rag_ready \/ ~kb.use_embeddings
       THEN /\ tasks' = [tasks EXCEPT ![t].pc = "built"]
            /\ kb' = kb
       ELSE IF outcome \in {"nochunks", "raise"}
       THEN /\ tasks' = [tasks EXCEPT ![t].pc = "built", ![t].outcome = outcome]
            /\ kb' = kb
       ELSE IF outcome = "nodense"
       THEN /\ tasks' = [tasks EXCEPT ![t].pc = "built", ![t].outcome = outcome]
            /\ kb' = [kb EXCEPT !.use_embeddings = FALSE, !.dense_unavailable = TRUE]
       ELSE /\ tasks' = [tasks EXCEPT ![t].pc = "add"]
            /\ kb' = [kb EXCEPT !.chunks = kb.index,
                                !.search_engine = IF @.load = "none" THEN NewEngine(kb.index)
                                                  ELSE @]
    /\ UNCHANGED <<calc, callers, gh, c7, hist, ncalls>>

\* line 177: add_documents starts loading the engine; an engine that a failed
\* build left partly loaded then holds chunks twice ("over")
KB_BuildAddBegin(t, raises) ==
    /\ tasks[t].pc = "add"
    /\ IF raises
       THEN /\ tasks' = [tasks EXCEPT ![t].pc = "built", ![t].outcome = "raise"]
            /\ kb' = kb
       ELSE /\ tasks' = [tasks EXCEPT ![t].pc = "adding"]
            /\ kb' = [kb EXCEPT !.search_engine.load = IF @ = "empty" THEN "partial" ELSE "over"]
    /\ UNCHANGED <<calc, callers, gh, c7, hist, ncalls>>

\* line 177: add_documents finishes (or raises part way)
KB_BuildAddEnd(t, raises) ==
    /\ tasks[t].pc = "adding"
    /\ IF raises
       THEN /\ tasks' = [tasks EXCEPT ![t].pc = "built", ![t].outcome = "raise"]
            /\ kb' = kb
       ELSE /\ tasks' = [tasks EXCEPT ![t].pc = "loaded"]
            /\ kb' = [kb EXCEPT !.search_engine.load = IF @ = "partial" THEN "full" ELSE "over"]
    /\ UNCHANGED <<calc, callers, gh, c7, hist, ncalls>>

\* line 178
KB_BuildReady(t) ==
    /\ tasks[t].pc = "loaded"
    /\ tasks' = [tasks EXCEPT ![t].pc = "built"]
    /\ kb' = [kb EXCEPT !.rag_ready = TRUE]
    /\ UNCHANGED <<calc, callers, gh, c7, hist, ncalls>>

\* KB_BuildResume without the finally of lines 143-144: the flag is reset only
\* when the build did not raise
KB_BuildResume_NoFinally(t) ==
    /\ tasks[t].pc = "built"
    /\ LET k1 == [kb EXCEPT !.building_index = FALSE]
           tk == [tasks[t] EXCEPT !.outcome = "none"]
           r == IF tasks[t].outcome = "raise" THEN [a |-> kb, t |-> Returned(tk, RaisedResult)]
                ELSE IF tk.stage = "init" THEN KB_initialized(k1, tk)
                ELSE KB_search_index(k1, tk)
       IN  kb' = r.a /\ tasks' = [tasks EXCEPT ![t] = Track(r.t)]
    /\ UNCHANGED <<calc, callers, gh, c7, hist, ncalls>>

\* _ensure_rag_ready resumes after the executor future: lines 143-144, then the
\* caller's code up to its next await; nothing catches an exception of the build
KB_BuildResume(t) ==
    /\ tasks[t].pc = "built"
    /\ LET k1 == [kb EXCEPT !.building_index = FALSE]
           tk == [tasks[t] EXCEPT !.outcome = "none"]
           r == IF tasks[t].outcome = "raise" THEN [a |-> k1, t |-> Returned(tk, RaisedResult)]
                ELSE IF tk.stage = "init" THEN KB_initialized(k1, tk)
                ELSE KB_search_index(k1, tk)
       IN  kb' = r.a /\ tasks' = [tasks EXCEPT ![t] = Track(r.t)]
    /\ UNCHANGED <<calc, callers, gh, c7, hist, ncalls>>

\* _rag_search after the await of line 185 and search, lines 128-133: the index
\* results when there are any, else (none, or an exception) the keyword search
KB_RagSearch(t, outcome) ==
    /\ tasks[t].pc = "rag"
    /\ tasks' = [tasks EXCEPT ![t] =
                   IF outcome = "hits" THEN Returned(@, RagResult(kb.search_engine))
                   ELSE Returned([@ EXCEPT !.outcome = IF outcome = "raise" THEN outcome
                                                        ELSE "none"],
                                 KeywordResult(kb.index))]
    /\ UNCHANGED <<calc, callers, gh, c7, kb, hist, ncalls>>

----------------------------------------------------------------------------
(* The caller receives the value (or the exception) of its call *)

\* What a fetch call did and returned; stored: the text it obtained is the cached
\* text of its key when it returns, ready: the index of its key is ready then.
Summary(tk, cached, ready) ==
    IF tk.op = "fetch"
    THEN [valid |-> TRUE, topic |-> tk.topic, tokens |-> tk.tokens, ret |-> tk.result.text,
          content |-> tk.content, req |-> tk.req, changed |-> tk.changed,
          builds |-> tk.builds, stored |-> (tk.content # NoText /\ cached = tk.content),
          ready |-> ready, use_cache |-> tk.use_cache]
    ELSE NoHist

Return(t, cached, ready) ==
    /\ tasks[t].pc = "ret"
    /\ tasks' = [tasks EXCEPT ![t] = IdleTask]
    /\ hist' = IF Sequential THEN Summary(tasks[t], cached, ready) ELSE NoHist
    /\ UNCHANGED <<calc, callers, gh, c7, kb, ncalls>>

GH_Return(t) == Return(t, IF gh.cache_enabled THEN gh.cache ELSE NoText, gh.rag_ready)

C7_Return(t) ==
    Return(t, IF c7.cache_enabled THEN c7.cache[C7_cache_key(tasks[t])] ELSE NoText,
           c7.rag_indices[TopicKey(tasks[t].topic)].ready)

KB_Return(t) == Return(t, NoText, kb.rag_ready)

----------------------------------------------------------------------------
(* Tool handlers (bot.py, setup_behind_bars_tools) and the startup of main.      *)
(* handler names the tool handler a task runs, adapter the adapter whose call    *)
(* it is awaiting, reply the text the handler returns: "short" is "Error: Search *)
(* query must be at least 2 characters.", "overview" the head of the README,     *)
(* "nofetch" is "Error: Could not fetch README from GitHub.", "nohits" a "No     *)
(* relevant information found..." message, "snippets" the combined snippets,     *)
(* "error" an "Error searching ...: <exception>" message; "raised" stands for an *)
(* exception that leaves the handler.                                            *)

\* the topic arguments of search_context7_handler: not given, blank
HandlerTopics == {"", " "}

\* topic.strip(), line 187
Strip(topic) == IF topic = " " THEN "" ELSE topic

\* tokens=10000, the fallback call of search_knowledge_handler (line 123); the
\* budgets are numbered, the default one is the first
DefaultTokens == 1

HandlerTask(handler, adapter, op, qlen) ==
    [IdleTask EXCEPT !.handler = handler, !.adapter = adapter, !.op = op, !.qlen = qlen]

Replied(tk, reply) == [tk EXCEPT !.pc = "replied", !.adapter = "none", !.reply = reply]

\* main, lines 491-501: the knowledge base is initialized before the tools are
\* registered
Started == kb.initialized /\ \A t \in Tasks : tasks[t].op # "init"

Invocable(t) ==
    t \in callers /\ tasks[t].pc = "idle" /\ Started /\ ncalls < MaxInvocations

\* initialize_knowledge_base, lines 460-479, called by main
BotStartup(t) ==
    /\ t \in callers /\ ~kb.initialized
    /\ \A u \in Tasks : tasks[u].pc = "idle"
    /\ LET r == KB_initialize_begin(kb, HandlerTask("none", "kb", "init", 0))
       IN  kb' = r.a /\ tasks' = [tasks EXCEPT ![t] = Track(r.t)]
    /\ UNCHANGED <<calc, callers, gh, c7, hist, ncalls>>

\* main goes on when the initialization has returned; when it raised the process
\* exits (lines 493-495)
BotStarted(t) ==
    /\ tasks[t].pc = "ret" /\ tasks[t].op = "init" /\ tasks[t].result = DoneResult
    /\ tasks' = [tasks EXCEPT ![t] = IdleTask]
    /\ UNCHANGED <<calc, callers, gh, c7, kb, hist, ncalls>>

\* search_github_readme_handler, lines 69-80, up to the await of the adapter call
ReadmeHandler(t, qlen, use_cache) ==
    /\ Invocable(t)
    /\ ncalls' = ncalls + 1
    /\ LET r == IF qlen < 2
                THEN GH_fetch_begin(gh, [HandlerTask("readme", "gh", "fetch", qlen)
                                           EXCEPT !.use_cache = use_cache])
                ELSE GH_search_begin(gh, HandlerTask("readme", "gh", "search", qlen))
       IN  gh' = r.a /\ tasks' = [tasks EXCEPT ![t] = Track(r.t)]
    /\ UNCHANGED <<calc, callers, c7, kb, hist>>

KnowledgeHandler_NoLengthCheck(t, qlen) ==
    /\ Invocable(t)
    /\ ncalls' = ncalls + 1
    /\ LET r == KB_search_begin(kb, HandlerTask("knowledge", "kb", "search", qlen))
       IN  kb' = r.a /\ tasks' = [tasks EXCEPT ![t] = Track(r.t)]
    /\ UNCHANGED <<calc, callers, gh, c7, hist>>

\* search_knowledge_handler, lines 111-115
KnowledgeHandler(t, qlen) ==
    /\ Invocable(t)
    /\ ncalls' = ncalls + 1
    /\ LET r == IF qlen < 2
                THEN [a |-> kb, t |-> Replied(HandlerTask("knowledge", "none", "none", qlen),
                                              "short")]
                ELSE KB_search_begin(kb, HandlerTask("knowledge", "kb", "search", qlen))
       IN  kb' = r.a /\ tasks' = [tasks EXCEPT ![t] = Track(r.t)]
    /\ UNCHANGED <<calc, callers, gh, c7, hist>>

\* search_context7_handler, lines 182-196
Context7Handler(t, qlen, topic, tokens) ==
    /\ Invocable(t)
    /\ ncalls' = ncalls + 1
    /\ LET search_topic == IF topic # "" THEN Strip(topic) ELSE QueryTopic
           r == IF qlen < 2
                THEN [a |-> c7, t |-> Replied(HandlerTask("context7", "none", "none", qlen),
                                              "short")]
                ELSE C7_search_begin(c7, [HandlerTask("context7", "c7", "search", qlen)
                                            EXCEPT !.topic = search_topic,
                                                   !.tokens = tokens])
       IN  c7' = r.a /\ tasks' = [tasks EXCEPT ![t] = Track(r.t)]
    /\ UNCHANGED <<calc, callers, gh, kb, hist>>

\* what the handler makes of the list its search returned: no result, results
\* whose snippets are all blank, or snippets (lines 82-103, 117-164, 198-218)
Formatted(result, found) == IF result.kind = "empty" THEN "none" ELSE found

\* The awaited adapter call hands its value or its exception to the handler, which
\* builds its text (lines 73-77, 82-106, 117-167, 198-222); with no local result
\* search_knowledge_handler goes on to search Context7 (lines 120-126).
HandlerReply_Unguarded(t, found) ==
    /\ tasks[t].pc = "ret" /\ tasks[t].handler # "none"
    /\ LET tk == tasks[t]
           results == Formatted(tk.result, found)
           r == IF tk.result.kind = "raise" THEN [a |-> c7, t |-> Replied(tk, "raised")]
                ELSE IF tk.op = "fetch"
                THEN [a |-> c7, t |-> Replied(tk, IF tk.result.text = EmptyText
                                                   THEN "nofetch" ELSE "overview")]
                ELSE IF tk.handler = "knowledge" /\ tk.adapter = "kb" /\ results = "none"
                THEN C7_search_begin(c7, [HandlerTask("knowledge", "c7", "search", tk.qlen)
                                            EXCEPT !.topic = QueryTopic,
                                                   !.tokens = DefaultTokens])
                ELSE [a |-> c7, t |-> Replied(tk, IF results = "snippets"
                                                   THEN "snippets" ELSE "nohits")]
       IN  c7' = r.a /\ tasks' = [tasks EXCEPT ![t] = Track(r.t)]
    /\ UNCHANGED <<calc, callers, gh, kb, hist, ncalls>>

HandlerReply(t, found) ==
    /\ tasks[t].pc = "ret" /\ tasks[t].handler # "none"
    /\ LET tk == tasks[t]
           results == Formatted(tk.result, found)
           r == IF tk.result.kind = "raise" THEN [a |-> c7, t |-> Replied(tk, "error")]
                ELSE IF tk.op = "fetch"
                THEN [a |-> c7, t |-> Replied(tk, IF tk.result.text = EmptyText
                                                   THEN "nofetch" ELSE "overview")]
                ELSE IF tk.handler = "knowledge" /\ tk.adapter = "kb" /\ results = "none"
                THEN C7_search_begin(c7, [HandlerTask("knowledge", "c7", "search", tk.qlen)
                                            EXCEPT !.topic = QueryTopic,
                                                   !.tokens = DefaultTokens])
                ELSE [a |-> c7, t |-> Replied(tk, IF results = "snippets"
                                                   THEN "snippets" ELSE "nohits")]
       IN  c7' = r.a /\ tasks' = [tasks EXCEPT ![t] = Track(r.t)]
    /\ UNCHANGED <<calc, callers, gh, kb, hist, ncalls>>

\* the tool call is over
HandlerReturn(t) ==
    /\ tasks[t].pc = "replied"
    /\ tasks' = [tasks EXCEPT ![t] = IdleTask]
    /\ UNCHANGED <<calc, callers, gh, c7, kb, hist, ncalls>>

----------------------------------------------------------------------------
(* Ranking: _rag_search, _deduplicate_results and _format_result, the same code  *)
(* in the three adapters but for the defaults of _format_result.  A candidate is *)
(* a RetrievalResult: the fingerprint and the chunk id of its chunk ("" is an    *)
(* absent fingerprint, None or empty) and its score.  A chunk's text is named by *)
(* its chunk id.                                                                 *)

MaxCandidates == 3

MaxScore == 2

MaxResults == 2

MaxVariations == 2

Adapters == {"gh", "c7", "kb"}

Fingerprints == {"", "f1", "f2"}

\* a chunk id can be the fingerprint of another chunk
ChunkIds == {"f1", "c2"}

Candidates ==
    [fingerprint : Fingerprints, chunk_id : ChunkIds, score : 1..MaxScore]

\* the results one call of search_engine.search can return
EngineResults ==
    {<<>>} \cup {<<a>> : a \in Candidates} \cup {<<a, b>> : a, b \in Candidates}

\* chunk.fingerprint or chunk.chunk_id (knowledge_base.py line 214)
FingerprintOf(result) ==
    IF result.fingerprint # "" THEN result.fingerprint ELSE result.chunk_id

\* results[:n] for n >= 0
Take(results, n) == SubSeq(results, 1, IF n < Len(results) THEN n ELSE Len(results))

\* a sort by score that puts a result before the earlier results of equal score
RECURSIVE SortedByScore_TiesReversed(_)
SortedByScore_TiesReversed(results) ==
    IF results = <<>> THEN <<>>
    ELSE LET n == Len(results)
             rest == SortedByScore_TiesReversed(SubSeq(results, 1, n - 1))
             last == results[n]
             k == Cardinality({i \in 1..Len(rest) : rest[i].score > last.score})
         IN  SubSeq(rest, 1, k) \o <<last>> \o SubSeq(rest, k + 1, Len(rest))

\* sorted(..., key=score, reverse=True): stable, equal scores keep their order
RECURSIVE SortedByScore(_)
SortedByScore(results) ==
    IF results = <<>> THEN <<>>
    ELSE LET n == Len(results)
             rest == SortedByScore(SubSeq(results, 1, n - 1))
             last == results[n]
             k == Cardinality({i \in 1..Len(rest) : rest[i].score >= last.score})
         IN  SubSeq(rest, 1, k) \o <<last>> \o SubSeq(rest, k + 1, Len(rest))

\* the loop of _deduplicate_results (lines 211-217) with the first candidate kept
\* for a fingerprint
RECURSIVE deduped_loop_KeepFirst(_, _)
deduped_loop_KeepFirst(results, deduped) ==
    IF results = <<>> THEN deduped
    ELSE LET result == Head(results)
             same == {i \in 1..Len(deduped) :
                         FingerprintOf(deduped[i]) = FingerprintOf(result)}
         IN  deduped_loop_KeepFirst(Tail(results),
                 IF same = {} THEN Append(deduped, result) ELSE deduped)

\* the loop of _deduplicate_results (lines 211-217); the dict keeps its keys in
\* the order of their first insertion
RECURSIVE deduped_loop(_, _)
deduped_loop(results, deduped) ==
    IF results = <<>> THEN deduped
    ELSE LET result == Head(results)
             same == {i \in 1..Len(deduped) :
                         FingerprintOf(deduped[i]) = FingerprintOf(result)}
         IN  deduped_loop(Tail(results),
                 IF same = {} THEN Append(deduped, result)
                 ELSE LET i == CHOOSE i \in same : TRUE IN
                      IF result.score > deduped[i].score
                      THEN [deduped EXCEPT ![i] = result]
                      ELSE deduped)

deduplicate_results_KeepFirst(results) ==
    SortedByScore(deduped_loop_KeepFirst(results, <<>>))

\* _deduplicate_results (knowledge_base.py lines 210-219, context7_tool.py lines
\* 275-285, github_readme_tool.py lines 238-248)
deduplicate_results(results) == SortedByScore(deduped_loop(results, <<>>))

\* _format_result (knowledge_base.py lines 221-232, context7_tool.py lines
\* 287-298, github_readme_tool.py lines 250-261); path is the chunk's when its
\* metadata has one
format_result(adapter, result) ==
    [path |-> result.chunk_id, type |-> "markdown", snippet |-> result.chunk_id,
     score |-> result.score, full_content |-> result.chunk_id,
     metadata |-> adapter]

\* a call of _rag_search with an engine: the arguments and the locals
RagCall(adapter, max_results) ==
    [fn |-> "rag_search", pc |-> "variations", adapter |-> adapter,
     max_results |-> max_results, variations |-> 0, aggregated |-> <<>>,
     deduped |-> <<>>, out |-> <<>>]

\* one turn of the loop over the variations (knowledge_base.py lines 189-204):
\* the engine returns its results for the variation
Rag_EngineSearch(results) ==
    /\ calc.fn = "rag_search" /\ calc.pc = "variations"
    /\ calc.variations < MaxVariations
    /\ Len(calc.aggregated) + Len(results) <= MaxCandidates
    /\ calc' = [calc EXCEPT !.variations = @ + 1, !.aggregated = @ \o results]
    /\ UNCHANGED <<callers, gh, c7, kb, tasks, hist, ncalls>>

\* line 206
Rag_Deduplicate ==
    /\ calc.fn = "rag_search" /\ calc.pc = "variations"
    /\ calc' = [calc EXCEPT !.pc = "deduped",
                            !.deduped = deduplicate_results(calc.aggregated)]
    /\ UNCHANGED <<callers, gh, c7, kb, tasks, hist, ncalls>>

Rag_Return_Unlimited ==
    /\ calc.fn = "rag_search" /\ calc.pc = "deduped"
    /\ calc' = [calc EXCEPT !.pc = "done",
                   !.out = [i \in 1..Len(calc.deduped) |->
                               format_result(calc.adapter, calc.deduped[i])]]
    /\ UNCHANGED <<callers, gh, c7, kb, tasks, hist, ncalls>>

\* lines 207-208
Rag_Return ==
    /\ calc.fn = "rag_search" /\ calc.pc = "deduped"
    /\ LET limited == Take(calc.deduped, calc.max_results) IN
       calc' = [calc EXCEPT !.pc = "done",
                   !.out = [i \in 1..Len(limited) |->
                               format_result(calc.adapter, limited[i])]]
    /\ UNCHANGED <<callers, gh, c7, kb, tasks, hist, ncalls>>

----------------------------------------------------------------------------
(* Strings are sequences of one-character strings.  The operators are those of   *)
(* Python's str that _search_keyword and _extract_snippet use.                   *)

Whitespace == {" ", "\n"}

\* str.lower, character by character
LowerChar(c) == IF c = "A" THEN "a" ELSE IF c = "B" THEN "b" ELSE c

Lower(str) == [i \in 1..Len(str) |-> LowerChar(str[i])]

\* the places (from 1) at or after from where sub occurs in str
Matches(str, sub, from) ==
    {i \in from..(Len(str) - Len(sub) + 1) : \A j \in 1..Len(sub) : str[i + j - 1] = sub[j]}

Least(S) == CHOOSE i \in S : \A j \in S : i <= j

\* the k-th smallest member of S
Nth(S, k) == CHOOSE i \in S : Cardinality({j \in S : j < i}) = k - 1

\* sub in str
Contains(str, sub) == Matches(str, sub, 1) # {}

\* str.find(sub), from 0, -1 when sub does not occur
Find(str, sub) == IF Contains(str, sub) THEN Least(Matches(str, sub, 1)) - 1 ELSE -1

\* str.count(sub) for a non-empty sub: the scan goes on after the end of each
\* occurrence it has counted
RECURSIVE CountFrom(_, _, _)
CountFrom(str, sub, from) ==
    IF Matches(str, sub, from) = {} THEN 0
    ELSE 1 + CountFrom(str, sub, Least(Matches(str, sub, from)) + Len(sub))

Count_Overlapping(str, sub) == Cardinality(Matches(str, sub, 1))

Count(str, sub) == CountFrom(str, sub, 1)

\* str.split(): the maximal runs of characters that are not whitespace
Split(str) ==
    LET starts == {i \in 1..Len(str) :
                      str[i] \notin Whitespace /\ (i = 1 \/ str[i - 1] \in Whitespace)}
        stop(i) == Least({j \in i..Len(str) :
                             j = Len(str) \/ str[j + 1] \in Whitespace})
    IN  [k \in 1..Cardinality(starts) |->
            SubSeq(str, Nth(starts, k), stop(Nth(starts, k)))]

\* str.split("\n")
SplitLines(str) ==
    LET breaks == {i \in 1..Len(str) : str[i] = "\n"}
        first(k) == IF k = 1 THEN 1 ELSE Nth(breaks, k - 1) + 1
        last(k) == IF k = Cardinality(breaks) + 1 THEN Len(str) ELSE Nth(breaks, k) - 1
    IN  [k \in 1..(Cardinality(breaks) + 1) |-> SubSeq(str, first(k), last(k))]

\* "\n".join(lines)
RECURSIVE JoinLines(_)
JoinLines(lines) ==
    IF lines = <<>> THEN <<>>
    ELSE IF Len(lines) = 1 THEN lines[1]
    ELSE lines[1] \o <<"\n">> \o JoinLines(Tail(lines))

\* line.strip().startswith("#")
IsHeading(line) ==
    \E i \in 1..Len(line) : line[i] = "#" /\ \A j \in 1..(i - 1) : line[j] \in Whitespace

\* str.strip() is empty
Blank(str) == \A i \in 1..Len(str) : str[i] \in Whitespace

\* len(str.strip())
StrippedLen(str) ==
    IF Blank(str) THEN 0
    ELSE LET solid == {i \in 1..Len(str) : str[i] \notin Whitespace}
         IN  Nth(solid, Cardinality(solid)) - Least(solid) + 1

\* sum(content.count(term) for term in query_terms)
RECURSIVE term_matches(_, _)
term_matches(content, query_terms) ==
    IF query_terms = <<>> THEN 0
    ELSE Count(content, Head(query_terms)) + term_matches(content, Tail(query_terms))

----------------------------------------------------------------------------
(* Keyword fallback: _search_keyword and _extract_snippet *)

\* len(snippet) < 500, snippet[:500] (knowledge_base.py lines 283-285)
SnippetLimit == 500

\* context_lines: int = 3 (line 270)
ContextLines == 3

\* content.split("\n")[:5] (line 275)
NoMatchLines == 5

\* doc["content"].split("\n")[:20] (line 250)
HeadingLines == 20

\* doc["content"][:2000] (line 262)
FullContentLimit == 2000

Ellipsis == <<".", ".", ".">>

SnippetWindow_FromTop(content, idx) ==
    LET lines == SplitLines(content)
        line_idx == Cardinality({i \in 1..idx : content[i] = "\n"})
        end == IF line_idx + ContextLines + 1 < Len(lines)
               THEN line_idx + ContextLines + 1 ELSE Len(lines)
    IN  SubSeq(lines, 1, end)

\* the lines of content from which _extract_snippet makes the snippet when the
\* query occurs at idx (lines 277-281)
SnippetWindow(content, idx) ==
    LET lines == SplitLines(content)
        line_idx == Cardinality({i \in 1..idx : content[i] = "\n"})
        start == IF line_idx - ContextLines > 0 THEN line_idx - ContextLines ELSE 0
        end == IF line_idx + ContextLines + 1 < Len(lines)
               THEN line_idx + ContextLines + 1 ELSE Len(lines)
    IN  SubSeq(lines, start + 1, end)

\* _extract_snippet (knowledge_base.py lines 269-285, context7_tool.py lines
\* 326-345, github_readme_tool.py lines 289-308)
extract_snippet(content, query) ==
    LET idx == Find(Lower(content), Lower(query)) IN
    IF idx = -1 THEN JoinLines(Take(SplitLines(content), NoMatchLines))
    ELSE LET snippet == JoinLines(SnippetWindow(content, idx)) IN
         IF Len(snippet) < SnippetLimit THEN snippet
         ELSE Take(snippet, SnippetLimit) \o Ellipsis

\* the score of _search_keyword of GitHubReadmeFetcher and Context7Search
\* (context7_tool.py lines 302-310, github_readme_tool.py lines 265-273)
content_score(query, content) ==
    LET query_lower == Lower(query)
        content_lower == Lower(content)
    IN  (IF Contains(content_lower, query_lower) THEN 10 ELSE 0)
        + term_matches(content_lower, Split(query_lower))

\* the score of a document in _search_keyword of KnowledgeBase (lines 235-252)
doc_score(query, doc) ==
    LET query_lower == Lower(query)
        query_terms == Split(query_lower)
        content == Lower(doc.content)
        path == Lower(doc.path)
        matches(str) == \E k \in 1..Len(query_terms) : Contains(str, query_terms[k])
        lines == Take(SplitLines(doc.content), HeadingLines)
        headings == {k \in 1..Len(lines) : IsHeading(lines[k]) /\ matches(Lower(lines[k]))}
    IN  (IF Contains(content, query_lower) THEN 10 ELSE 0)
        + term_matches(content, query_terms)
        + (IF matches(path) THEN 5 ELSE 0)
        + 3 * Cardinality(headings)

\* the result _search_keyword of GitHubReadmeFetcher and Context7Search makes
\* (context7_tool.py lines 312-324, github_readme_tool.py lines 275-287)
content_results(adapter, query, content) ==
    LET score == content_score(query, content) IN
    IF score > 0
    THEN <<[path |-> IF adapter = "gh" THEN "README.md" ELSE "Context7",
            type |-> IF adapter = "gh" THEN "readme" ELSE "documentation",
            snippet |-> extract_snippet(content, Lower(query)),
            score |-> score,
            full_content |-> Take(content, FullContentLimit),
            metadata |-> adapter]>>
    ELSE <<>>

\* the loop of _search_keyword of KnowledgeBase over self.index (lines 238-264)
RECURSIVE index_results(_, _)
index_results(query, index) ==
    IF index = <<>> THEN <<>>
    ELSE LET doc == Head(index)
             score == doc_score(query, doc)
         IN  (IF score > 0
              THEN <<[path |-> doc.path, type |-> doc.type,
                      snippet |-> extract_snippet(doc.content, Lower(query)),
                      score |-> score,
                      full_content |-> Take(doc.content, FullContentLimit)]>>
              ELSE <<>>) \o index_results(query, Tail(index))

search_keyword_Unsorted(adapter, query, index, max_results) ==
    IF adapter = "kb"
    THEN Take(index_results(query, index), max_results)
    ELSE content_results(adapter, query, index[1].content)

\* _search_keyword (knowledge_base.py lines 234-267, context7_tool.py lines
\* 300-324, github_readme_tool.py lines 263-287); index is the list of the
\* documents, the one text of the other two adapters being its only document
search_keyword(adapter, query, index, max_results) ==
    IF adapter = "kb"
    THEN Take(SortedByScore(index_results(query, index)), max_results)
    ELSE content_results(adapter, query, index[1].content)

\* the document of a text
Doc(path, content) == [path |-> path, content |-> content, type |-> "markdown"]

\* a call of _search_keyword: the arguments and the value
KeywordCall(adapter, query, index, max_results) ==
    [fn |-> "search_keyword", pc |-> "called", adapter |-> adapter, query |-> query,
     index |-> index, max_results |-> max_results, out |-> <<>>]

\* search reaches its keyword fallback with this query: the checks of the query
\* at the head of search (knowledge_base.py lines 108-109, github_readme_tool.py
\* lines 131-132, context7_tool.py lines 160-161)
Searchable(adapter, query) ==
    IF adapter = "c7" THEN StrippedLen(query) >= 2 ELSE ~Blank(query)

\* a call of KnowledgeBase.search on an initialized instance that was constructed
\* with use_embeddings=False: the arguments and the value
SearchCall(query, index, max_results) ==
    [fn |-> "search", pc |-> "called", adapter |-> "kb", query |-> query,
     index |-> index, max_results |-> max_results, out |-> <<>>]

\* KnowledgeBase.search, lines 108-118, with use_embeddings false
KB_SearchNoEmbeddings ==
    /\ calc.fn = "search" /\ calc.pc = "called"
    /\ calc' = [calc EXCEPT !.pc = "done",
                   !.out = IF Blank(calc.query) \/ calc.index = <<>> THEN <<>>
                           ELSE search_keyword("kb", calc.query, calc.index,
                                               calc.max_results)]
    /\ UNCHANGED <<callers, gh, c7, kb, tasks, hist, ncalls>>

Keyword_Search ==
    /\ calc.fn = "search_keyword" /\ calc.pc = "called"
    /\ calc' = [calc EXCEPT !.pc = "done",
                   !.out = search_keyword(calc.adapter, calc.query, calc.index,
                                          calc.max_results)]
    /\ UNCHANGED <<callers, gh, c7, kb, tasks, hist, ncalls>>

----------------------------------------------------------------------------
(* Specifications: one per adapter instance, one for the tool handlers *)

BuildOutcomes == {"ok", "nochunks", "nodense", "raise"}

\* the lengths of query.strip(): empty, one character, two or more
QueryLengths == {0, 1, 2}

\* the lists a search can hand to a handler
Findings == {"none", "blank", "snippets"}

\* the adapter whose call a task is in
OnGH(t) == tasks[t].adapter = "gh"

OnC7(t) == tasks[t].adapter = "c7"

OnKB(t) == tasks[t].adapter = "kb"

Init ==
    /\ callers \in {{"t1"}, Tasks}
    /\ gh = GH_Init
    /\ c7 = C7_Init
    /\ kb = KB_Init(NoText, TRUE)
    /\ tasks = [t \in Tasks |-> IdleTask]
    /\ hist = NoHist
    /\ ncalls = 0
    /\ calc = NoCalc

InitKB ==
    /\ callers \in {{"t1"}, Tasks}
    /\ gh = GH_Init
    /\ c7 = C7_Init
    /\ kb \in {KB_Init(dir, use_embeddings) :
                 dir \in {NoText} \cup Texts, use_embeddings \in BOOLEAN}
    /\ tasks = [t \in Tasks |-> IdleTask]
    /\ hist = NoHist
    /\ ncalls = 0
    /\ calc = NoCalc

NextGH ==
    \/ \E t \in Tasks, use_cache \in BOOLEAN : GH_FetchReadme(t, use_cache)
    \/ \E t \in Tasks, qlen \in QueryLengths : GH_Search(t, qlen)
    \/ \E t \in Tasks, content \in Texts : GH_Response(t, content)
    \/ \E t \in Tasks : GH_ResponseError(t)
    \/ \E t \in Tasks, outcome \in BuildOutcomes : GH_BuildPrepare(t, outcome)
    \/ \E t \in Tasks, raises \in BOOLEAN : GH_BuildAddBegin(t, raises)
    \/ \E t \in Tasks, raises \in BOOLEAN : GH_BuildAddEnd(t, raises)
    \/ \E t \in Tasks : GH_BuildReady(t)
    \/ \E t \in Tasks : GH_BuildResume(t)
    \/ \E t \in Tasks, raises \in BOOLEAN : GH_RagSearch(t, raises)
    \/ GH_ClearCache
    \/ \E enabled \in BOOLEAN : GH_SetCacheEnabled(enabled)
    \/ \E t \in Tasks : GH_Return(t)

NextC7 ==
    \/ \E t \in Tasks, topic \in TopicArgs, tokens \in TokenBudgets, use_cache \in BOOLEAN :
          C7_Fetch(t, topic, tokens, use_cache)
    \/ \E t \in Tasks, qlen \in QueryLengths, topic \in TopicArgs, tokens \in TokenBudgets,
          use_cache \in BOOLEAN : C7_Search(t, qlen, topic, tokens, use_cache)
    \/ \E t \in Tasks, content \in Texts : C7_Response(t, content)
    \/ \E t \in Tasks : C7_ResponseError(t)
    \/ \E t \in Tasks, outcome \in BuildOutcomes : C7_Build(t, outcome)
    \/ \E t \in Tasks : C7_BuildResume(t)
    \/ \E t \in Tasks, raises \in BOOLEAN : C7_RagSearch(t, raises)
    \/ C7_ClearCache
    \/ \E enabled \in BOOLEAN : C7_SetCacheEnabled(enabled)
    \/ \E t \in Tasks : C7_Return(t)

NextKB ==
    \/ \E t \in Tasks : KB_Initialize(t)
    \/ \E t \in Tasks, qlen \in QueryLengths : KB_Search(t, qlen)
    \/ \E t \in Tasks : KB_ReadDone(t)
    \/ \E t \in Tasks, outcome \in BuildOutcomes : KB_BuildPrepare(t, outcome)
    \/ \E t \in Tasks, raises \in BOOLEAN : KB_BuildAddBegin(t, raises)
    \/ \E t \in Tasks, raises \in BOOLEAN : KB_BuildAddEnd(t, raises)
    \/ \E t \in Tasks : KB_BuildReady(t)
    \/ \E t \in Tasks : KB_BuildResume(t)
    \/ \E t \in Tasks, outcome \in {"hits", "nohits", "raise"} : KB_RagSearch(t, outcome)
    \/ \E t \in Tasks : KB_Return(t)

\* The texts of a run of the bot: a source answers with the empty text or with
\* one text, the directory is missing, without documents or holds documents.
\* (Successive answers that differ are the matter of SpecGH and SpecC7.)
HandlerTexts == {EmptyText, EmptyText + 1}

InitBot ==
    /\ callers \in {{"t1"}, Tasks}
    /\ gh = GH_Init
    /\ c7 = C7_Init
    /\ kb \in {KB_Init(dir, use_embeddings) :
                 dir \in {NoText} \cup HandlerTexts, use_embeddings \in BOOLEAN}
    /\ tasks = [t \in Tasks |-> IdleTask]
    /\ hist = NoHist
    /\ ncalls = 0
    /\ calc = NoCalc

\* the three tools of one bot process, after the startup of main
NextBot ==
    \/ \E t \in Tasks : BotStartup(t)
    \/ \E t \in Tasks : BotStarted(t)
    \/ \E t \in Tasks, qlen \in QueryLengths, use_cache \in BOOLEAN :
          ReadmeHandler(t, qlen, use_cache)
    \/ \E t \in Tasks, qlen \in QueryLengths : KnowledgeHandler(t, qlen)
    \/ \E t \in Tasks, qlen \in QueryLengths, topic \in HandlerTopics,
          tokens \in TokenBudgets : Context7Handler(t, qlen, topic, tokens)
    \/ \E t \in Tasks, found \in Findings : HandlerReply(t, found)
    \/ \E t \in Tasks : HandlerReturn(t)
    \/ \E t \in Tasks, content \in HandlerTexts : OnGH(t) /\ GH_Response(t, content)
    \/ \E t \in Tasks : OnGH(t) /\ GH_ResponseError(t)
    \/ \E t \in Tasks, outcome \in BuildOutcomes : OnGH(t) /\ GH_BuildPrepare(t, outcome)
    \/ \E t \in Tasks, raises \in BOOLEAN : OnGH(t) /\ GH_BuildAddBegin(t, raises)
    \/ \E t \in Tasks, raises \in BOOLEAN : OnGH(t) /\ GH_BuildAddEnd(t, raises)
    \/ \E t \in Tasks : OnGH(t) /\ GH_BuildReady(t)
    \/ \E t \in Tasks : OnGH(t) /\ GH_BuildResume(t)
    \/ \E t \in Tasks, raises \in BOOLEAN : OnGH(t) /\ GH_RagSearch(t, raises)
    \/ \E t \in Tasks, content \in HandlerTexts : OnC7(t) /\ C7_Response(t, content)
    \/ \E t \in Tasks : OnC7(t) /\ C7_ResponseError(t)
    \/ \E t \in Tasks, outcome \in BuildOutcomes : OnC7(t) /\ C7_Build(t, outcome)
    \/ \E t \in Tasks : OnC7(t) /\ C7_BuildResume(t)
    \/ \E t \in Tasks, raises \in BOOLEAN : OnC7(t) /\ C7_RagSearch(t, raises)
    \/ \E t \in Tasks : OnKB(t) /\ KB_ReadDone(t)
    \/ \E t \in Tasks, outcome \in BuildOutcomes : OnKB(t) /\ KB_BuildPrepare(t, outcome)
    \/ \E t \in Tasks, raises \in BOOLEAN : OnKB(t) /\ KB_BuildAddBegin(t, raises)
    \/ \E t \in Tasks, raises \in BOOLEAN : OnKB(t) /\ KB_BuildAddEnd(t, raises)
    \/ \E t \in Tasks : OnKB(t) /\ KB_BuildReady(t)
    \/ \E t \in Tasks : OnKB(t) /\ KB_BuildResume(t)
    \/ \E t \in Tasks, outcome \in {"hits", "nohits", "raise"} :
          OnKB(t) /\ KB_RagSearch(t, outcome)

SpecGH == Init /\ [][NextGH]_vars

SpecC7 == Init /\ [][NextC7]_vars

SpecKB == InitKB /\ [][NextKB]_vars

SpecBot == InitBot /\ [][NextBot]_vars

\* What goes on without a caller in a run of the knowledge base: the file reads
\* (awaited, lines 73-89), the executor job of _ensure_rag_ready (line 142), the
\* resumption of the coroutine that awaits it, the awaited query expansion and
\* index search of _rag_search, and the delivery of a result to the caller.
KB_Step(t) ==
    \/ KB_ReadDone(t)
    \/ \E outcome \in BuildOutcomes : KB_BuildPrepare(t, outcome)
    \/ \E raises \in BOOLEAN : KB_BuildAddBegin(t, raises)
    \/ \E raises \in BOOLEAN : KB_BuildAddEnd(t, raises)
    \/ KB_BuildReady(t)
    \/ KB_BuildResume(t)
    \/ \E outcome \in {"hits", "nohits", "raise"} : KB_RagSearch(t, outcome)
    \/ KB_Return(t)

\* The event loop resumes every coroutine whose awaited future is done, the
\* executor runs every job it was given, and the chunker, the embedder, the
\* index and the file reads return or raise in finite time: a step of a call
\* that stays possible is taken.
LiveKB == InitKB /\ [][NextKB]_vars /\ \A t \in Tasks : WF_vars(KB_Step(t))

\* the same of the README adapter: the response of the GET (which has a timeout,
\* line 93), the executor job, the resumptions and the delivery of the result
GH_Step(t) ==
    \/ \E content \in Texts : GH_Response(t, content)
    \/ GH_ResponseError(t)
    \/ \E outcome \in BuildOutcomes : GH_BuildPrepare(t, outcome)
    \/ \E raises \in BOOLEAN : GH_BuildAddBegin(t, raises)
    \/ \E raises \in BOOLEAN : GH_BuildAddEnd(t, raises)
    \/ GH_BuildReady(t)
    \/ GH_BuildResume(t)
    \/ \E raises \in BOOLEAN : GH_RagSearch(t, raises)
    \/ GH_Return(t)

LiveGH == Init /\ [][NextGH]_vars /\ \A t \in Tasks : WF_vars(GH_Step(t))

\* and of the Context7 adapter
C7_Step(t) ==
    \/ \E content \in Texts : C7_Response(t, content)
    \/ C7_ResponseError(t)
    \/ \E outcome \in BuildOutcomes : C7_Build(t, outcome)
    \/ C7_BuildResume(t)
    \/ \E raises \in BOOLEAN : C7_RagSearch(t, raises)
    \/ C7_Return(t)

LiveC7 == Init /\ [][NextC7]_vars /\ \A t \in Tasks : WF_vars(C7_Step(t))

\* the queries, the texts and the document lists of the ranking runs; the files
\* of a directory have distinct names and are listed in any order
RankQueries == {<<"a">>, <<"a", "b">>, <<"a", " ", "b">>}

RankTexts == {<<"a">>, <<"b", "a", "b">>, <<"b", " ", "a", "b">>, <<"#", "B">>}

RankDocs == {Doc(path, content) : path \in {<<"a">>, <<"b">>, <<"x">>},
                                   content \in RankTexts}

RankIndexes ==
    {index \in {<<d>> : d \in RankDocs} \cup {<<d, e>> : d, e \in RankDocs}
               \cup {<<d, e, f>> : d, e, f \in RankDocs} :
        \A i, j \in 1..Len(index) : i # j => index[i].path # index[j].path}

\* the adapters are left as constructed, a helper is called
InitRank ==
    /\ callers = {"t1"}
    /\ gh = GH_Init
    /\ c7 = C7_Init
    /\ kb = KB_Init(NoText, TRUE)
    /\ tasks = [t \in Tasks |-> IdleTask]
    /\ hist = NoHist
    /\ ncalls = 0
    /\ calc \in {RagCall(adapter, max_results) :
                     adapter \in Adapters, max_results \in 0..MaxResults}
                \cup {KeywordCall(adapter, query, index, max_results) :
                         adapter \in Adapters, query \in RankQueries,
                         index \in RankIndexes, max_results \in 0..MaxResults}
    /\ calc.fn = "search_keyword"
       => /\ Searchable(calc.adapter, calc.query)
          /\ calc.adapter # "kb" => Len(calc.index) = 1

NextRank ==
    \/ \E results \in EngineResults : Rag_EngineSearch(results)
    \/ Rag_Deduplicate
    \/ Rag_Return
    \/ Keyword_Search

SpecRank == InitRank /\ [][NextRank]_vars

\* The texts and the queries of the scoring runs: every string of up to MaxChars
\* characters, and the texts whose 20th or 21st line is a heading.
MaxChars == 3

Strings(alphabet, n) == UNION {[1..k -> alphabet] : k \in 1..n}

Repeat(c, n) == [i \in 1..n |-> c]

ScoreQueries == Strings({"a", "A", "b", " "}, MaxChars)

ScoreTexts ==
    Strings({"a", "A", "b", " ", "\n", "#"}, MaxChars)
    \cup {Repeat("\n", n) \o <<"#", "a">> : n \in {HeadingLines - 1, HeadingLines}}

ScorePaths == {<<"A">>, <<"x">>}

InitScore ==
    /\ callers = {"t1"}
    /\ gh = GH_Init
    /\ c7 = C7_Init
    /\ kb = KB_Init(NoText, TRUE)
    /\ tasks = [t \in Tasks |-> IdleTask]
    /\ hist = NoHist
    /\ ncalls = 0
    /\ calc \in {KeywordCall(adapter, query, <<Doc(path, content)>>, 1) :
                     adapter \in Adapters, query \in ScoreQueries,
                     path \in ScorePaths, content \in ScoreTexts}
    /\ Searchable(calc.adapter, calc.query)
    /\ calc.adapter # "kb" => calc.index[1].path = <<"x">>

NextScore == Keyword_Search

SpecScore == InitScore /\ [][NextScore]_vars

\* The texts of the snippet runs: up to MaxLinesBefore lines of b's, a line of
\* b's that ends with "a", and possibly a last line "b b"; their lengths bring the
\* text around the match to just under, to exactly and to over 500 characters.
MaxLinesBefore == 4

LineLengths == {0, SnippetLimit - 2}

MatchOffsets == {0, SnippetLimit - 3, SnippetLimit - 2, SnippetLimit - 1, SnippetLimit}

LinesBefore == UNION {[1..k -> LineLengths] : k \in 0..MaxLinesBefore}

SnippetText(before, offset, last) ==
    JoinLines([k \in 1..Len(before) |-> Repeat("b", before[k])]
              \o <<Repeat("b", offset) \o <<"a">>>>
              \o (IF last THEN <<<<"b", " ", "b">>>> ELSE <<>>))

SnippetTexts ==
    {SnippetText(before, offset, last) :
        before \in LinesBefore, offset \in MatchOffsets, last \in BOOLEAN}

SnippetQueries == {<<"a">>, <<"A">>, <<"b", "a">>, <<" ">>, <<"c">>}

InitSnippet ==
    /\ callers = {"t1"}
    /\ gh = GH_Init
    /\ c7 = C7_Init
    /\ kb = KB_Init(NoText, FALSE)
    /\ tasks = [t \in Tasks |-> IdleTask]
    /\ hist = NoHist
    /\ ncalls = 0
    /\ calc \in {SearchCall(query, <<Doc(<<"x">>, content)>>, max_results) :
                     query \in SnippetQueries, content \in SnippetTexts,
                     max_results \in {0, 1}}
                \cup {KeywordCall(adapter, query, <<Doc(<<"x">>, content)>>, 1) :
                         adapter \in {"gh", "c7"}, query \in SnippetQueries,
                         content \in SnippetTexts}
    /\ calc.fn = "search_keyword" => Searchable(calc.adapter, calc.query)

NextSnippet ==
    \/ KB_SearchNoEmbeddings
    \/ Keyword_Search

SpecSnippet == InitSnippet /\ [][NextSnippet]_vars

----------------------------------------------------------------------------
(* KnowledgeBase.initialize over the files of the directory.  A directory is    *)
(* the list of its *.md files in the order glob gives them; a file is its text  *)
(* and whether read_text gives it (when it raises, _read_file_async returns     *)
(* None).  The instance is built with use_embeddings=False, as                  *)
(* test_knowledge_base_initialization builds it, so initialize ends at line 93. *)

MaxFiles == 3

Unreadable == [readable |-> FALSE, text |-> <<>>]

File(text) == [readable |-> TRUE, text |-> text]

FileContents == {Unreadable, File(<<>>), File(<<"a">>)}

\* md_file.name of the k-th file
FileName(k) == Repeat("b", k)

Directories == UNION {[1..n -> FileContents] : n \in 0..MaxFiles}

IdleCall == [pc |-> "idle", i |-> 0, indexed_files |-> <<>>]

\* an instance over knowledge_path before any call: exists is
\* knowledge_path.exists(), files the contents of its *.md files; at[t] is the
\* place of caller t in initialize
InitializeCall(exists, files) ==
    [fn |-> "initialize", exists |-> exists, files |-> files, index |-> <<>>,
     initialized |-> FALSE, at |-> [t \in Tasks |-> IdleCall]]

\* initialize, lines 62-75, up to the first await of a file read; with no *.md
\* file the loop has no turn and lines 91-92 follow at once
Initialize_Call(t) ==
    /\ calc.fn = "initialize" /\ calc.at[t].pc = "idle"
    /\ calc' = IF calc.initialized THEN [calc EXCEPT !.at[t].pc = "done"]
               ELSE IF ~calc.exists
               THEN [calc EXCEPT !.initialized = TRUE, !.at[t].pc = "done"]
               ELSE IF calc.files = <<>>
               THEN [calc EXCEPT !.index = <<>>, !.initialized = TRUE, !.at[t].pc = "done"]
               ELSE [calc EXCEPT !.at[t].pc = "read"]
    /\ UNCHANGED <<callers, gh, c7, kb, tasks, hist, ncalls>>

Initialize_ReadFile_KeepEmpty(t) ==
    /\ calc.fn = "initialize" /\ calc.at[t].pc = "read"
    /\ LET k == calc.at[t].i + 1
           content == calc.files[k]
           indexed_files == IF ~content.readable THEN calc.at[t].indexed_files
                            ELSE Append(calc.at[t].indexed_files,
                                        Doc(FileName(k), content.text))
       IN  calc' = IF k < Len(calc.files)
                   THEN [calc EXCEPT !.at[t].i = k, !.at[t].indexed_files = indexed_files]
                   ELSE [calc EXCEPT !.at[t].pc = "done",
                                     !.at[t].indexed_files = indexed_files,
                                     !.index = indexed_files, !.initialized = TRUE]
    /\ UNCHANGED <<callers, gh, c7, kb, tasks, hist, ncalls>>

\* the read of line 75 is done: lines 76-89 for this file, then the next read,
\* or lines 91-93 after the last file
Initialize_ReadFile(t) ==
    /\ calc.fn = "initialize" /\ calc.at[t].pc = "read"
    /\ LET k == calc.at[t].i + 1
           content == calc.files[k]
           indexed_files == IF ~content.readable \/ content.text = <<>>
                            THEN calc.at[t].indexed_files
                            ELSE Append(calc.at[t].indexed_files,
                                        Doc(FileName(k), content.text))
       IN  calc' = IF k < Len(calc.files)
                   THEN [calc EXCEPT !.at[t].i = k, !.at[t].indexed_files = indexed_files]
                   ELSE [calc EXCEPT !.at[t].pc = "done",
                                     !.at[t].indexed_files = indexed_files,
                                     !.index = indexed_files, !.initialized = TRUE]
    /\ UNCHANGED <<callers, gh, c7, kb, tasks, hist, ncalls>>

InitInitialize ==
    /\ callers = Tasks
    /\ gh = GH_Init
    /\ c7 = C7_Init
    /\ kb = KB_Init(NoText, FALSE)
    /\ tasks = [t \in Tasks |-> IdleTask]
    /\ hist = NoHist
    /\ ncalls = 0
    /\ calc \in {InitializeCall(TRUE, files) : files \in Directories}
                \cup {InitializeCall(FALSE, <<>>)}

NextInitialize ==
    \/ \E t \in Tasks : Initialize_Call(t)
    \/ \E t \in Tasks : Initialize_ReadFile(t)

SpecInitialize == InitInitialize /\ [][NextInitialize]_vars

----------------------------------------------------------------------------
(* The module globals _context7_search and _github_readme_fetcher and their     *)
(* accessors.  An instance is the number of the constructor call that made it,  *)
(* None is 0.  The accessors are plain functions without an await: a call is    *)
(* one step of the event loop.  got[t] lists what the calls of t returned.      *)

MaxGets == 4

None == 0

Accessors(global, created) ==
    [fn |-> "get", global |-> global, created |-> created,
     got |-> [t \in Tasks |-> <<>>]]

\* the calls made so far
Gets == Len(calc.got["t1"]) + Len(calc.got["t2"])

\* the value of the global after "if global is None: global = Class()"
GetOrCreate(adapter) ==
    IF calc.global[adapter] = None THEN calc.created[adapter] + 1 ELSE calc.global[adapter]

Get_Fresh(t, adapter) ==
    /\ calc.fn = "get" /\ Gets < MaxGets
    /\ calc' = [calc EXCEPT !.global[adapter] = calc.created[adapter] + 1,
                            !.created[adapter] = @ + 1,
                            !.got[t] = Append(@, [adapter |-> adapter,
                                                  instance |-> calc.created[adapter] + 1])]
    /\ UNCHANGED <<callers, gh, c7, kb, tasks, hist, ncalls>>

\* get_context7_search (context7_tool.py lines 363-368) and
\* get_github_readme_fetcher (github_readme_tool.py lines 327-332)
Get(t, adapter) ==
    /\ calc.fn = "get" /\ Gets < MaxGets
    /\ calc' = [calc EXCEPT !.global[adapter] = GetOrCreate(adapter),
                            !.created[adapter] = IF calc.global[adapter] = None
                                                 THEN @ + 1 ELSE @,
                            !.got[t] = Append(@, [adapter |-> adapter,
                                                  instance |-> GetOrCreate(adapter)])]
    /\ UNCHANGED <<callers, gh, c7, kb, tasks, hist, ncalls>>

get_context7_search(t) == Get(t, "c7")

get_github_readme_fetcher(t) == Get(t, "gh")

InitGet ==
    /\ callers = Tasks
    /\ gh = GH_Init
    /\ c7 = C7_Init
    /\ kb = KB_Init(NoText, FALSE)
    /\ tasks = [t \in Tasks |-> IdleTask]
    /\ hist = NoHist
    /\ ncalls = 0
    /\ calc = Accessors([a \in {"gh", "c7"} |-> None], [a \in {"gh", "c7"} |-> 0])

NextGet ==
    \/ \E t \in Tasks : get_context7_search(t)
    \/ \E t \in Tasks : get_github_readme_fetcher(t)

SpecGet == InitGet /\ [][NextGet]_vars

----------------------------------------------------------------------------
(* Properties *)

SameKey(tk) == hist.topic = tk.topic /\ hist.tokens = tk.tokens

\* C1: two successive fetches of one key with caching enabled, between which the
\* cache was neither cleared nor switched: the first obtained a text and left it
\* cached, so the second returns the identical text and performs no HTTP request.
C1_RepeatedFetchIdentical ==
    \A t \in Tasks :
        LET tk == tasks[t] IN
        (/\ Sequential
         /\ tk.pc = "ret" /\ tk.op = "fetch" /\ tk.use_cache
         /\ hist.valid /\ hist.use_cache /\ hist.stored /\ SameKey(tk))
        => (tk.result.text = hist.ret /\ ~tk.req)

\* C2: on one instance at most one index build is in progress per key at any
\* time, whatever fetch, search and clear_cache calls interleave.
C2_SingleFlight ==
    \A key \in TopicKeys :
        Cardinality({t \in Tasks : InFlight(tasks[t])
                                    /\ TopicKey(tasks[t].topic) = key}) <= 1

\* C4: the index is never marked ready while the search engine behind it is
\* missing, empty or partly loaded, and no search gets results from such an engine.
C4_ReadyIndexComplete ==
    /\ gh.rag_ready => gh.search_engine.load = "full"
    /\ \A key \in TopicKeys :
          c7.rag_indices[key].ready => c7.rag_indices[key].engine.load = "full"
    /\ kb.rag_ready => kb.search_engine.load \notin {"none", "empty", "partial"}
    /\ \A t \in Tasks :
          tasks[t].result.kind = "rag" => tasks[t].result.load \notin {"none", "empty", "partial"}

\* C5: a search that returns results of the index returns results of an index
\* built from exactly the text this search obtained from its fetch.
C5_ResultsFromObtainedText ==
    \A t \in Tasks :
        (tasks[t].pc = "ret" /\ tasks[t].op = "search" /\ tasks[t].result.kind = "rag")
        => tasks[t].result.text = tasks[t].content

\* the step is task t starting an index build
StartsBuild(t) == tasks[t].pc # "build" /\ tasks'[t].pc = "build"

\* another task's build for the key of task t's call is in flight
OtherInFlight(t) ==
    \E u \in Tasks \ {t} :
        InFlight(tasks[u]) /\ TopicKey(tasks[u].topic) = TopicKey(tasks'[t].topic)

\* the step takes task t's search, with a non-empty text obtained, to _ensure_rag_ready
SearchReachesEnsure(t) ==
    /\ tasks[t].pc \in {"idle", "http"}
    /\ tasks'[t].op = "search"
    /\ tasks'[t].pc # "http"
    /\ tasks'[t].content \notin {NoText, EmptyText}

\* C3: a caller that reaches _ensure_rag_ready while a build for its key is in
\* flight starts no second build and does not wait; when the key's index is not
\* ready at that moment its search returns keyword results.
C3_NoBuildWhileInFlight ==
    [][\A t \in Tasks :
          /\ (OtherInFlight(t) /\ StartsBuild(t)) => FALSE
          /\ (OtherInFlight(t) /\ SearchReachesEnsure(t)
                /\ ~c7.rag_indices[TopicKey(tasks'[t].topic)].ready)
             => (tasks'[t].pc = "ret" /\ tasks'[t].result.kind = "keyword")]_vars

\* the step is task t's fetch_readme receiving a text that differs from the cached text
RetrievesChangedText(t) ==
    /\ tasks[t].pc = "http"
    /\ tasks'[t].content # NoText
    /\ gh.cache # NoText
    /\ gh.cache # tasks'[t].content

\* C6: when fetch_readme retrieves a text that differs from the previously cached
\* text, the index-ready flag is reset, and stays so until a build from the new
\* text has completed.
C6_ChangedTextResetsReady ==
    [][\A t \in Tasks : RetrievesChangedText(t) => ~gh'.rag_ready]_vars

\* C7: after the content of a key changed and was re-fetched, its index built, the
\* next search on that key (which obtains that same text) performs exactly one
\* index build, not zero and not two, before it returns results.
C7_OneBuildAfterChange ==
    \A t \in Tasks :
        LET tk == tasks[t] IN
        (/\ Sequential
         /\ tk.pc = "ret" /\ tk.op = "search" /\ tk.result.kind \in {"keyword", "rag"}
         /\ hist.valid /\ hist.req /\ hist.changed = "differs" /\ hist.ready
         /\ hist.topic = tk.topic /\ hist.content = tk.content)
        => tk.builds = 1

\* C8: of two successive fetches of one key that both retrieve, the second
\* retrieving the identical text and finding the index of the first ready, only the
\* first computes content_changed true and starts a build; the second computes
\* content_changed false and starts no build.
C8_IdenticalRefetchNoBuild ==
    \A t \in Tasks :
        LET tk == tasks[t] IN
        (/\ Sequential
         /\ tk.pc = "ret" /\ tk.op = "fetch" /\ tk.req /\ tk.content # NoText
         /\ hist.valid /\ hist.req /\ hist.ready /\ hist.changed # "no"
         /\ SameKey(tk) /\ hist.content = tk.content)
        => (hist.builds = 1 /\ tk.changed = "no" /\ tk.builds = 0)

\* C9: an index build is started only when the fetched text differs from the cached
\* text or the index is not ready (or by the search whose own fetch just built);
\* a search over unchanged cached text with a ready index starts no build.
C9_BuildOnlyWhenNeeded ==
    [][\A t \in Tasks :
          StartsBuild(t)
          => \/ ~gh.rag_ready
             \/ tasks[t].pc = "http" /\ gh.cache # tasks'[t].content
             \/ tasks[t].pc = "built"]_vars

\* C10: after an index build that found the dense embeddings absent or empty the
\* adapter reports its index as not ready (so that the next search returns keyword
\* results).
C10_NoDenseNotReady ==
    \A t \in Tasks :
        (tasks[t].pc = "built" /\ tasks[t].outcome = "nodense")
        => (~gh.rag_ready /\ ~c7.rag_indices[TopicKey(tasks[t].topic)].ready /\ ~kb.rag_ready)

\* the step is _ensure_rag_ready of task t resuming from a build that raised
ResumesRaisedBuild(t) ==
    tasks[t].pc = "built" /\ tasks[t].outcome = "raise" /\ tasks'[t].pc # "built"

\* C11: when the offloaded index build raised, the building flag of the key is
\* cleared and the index of the key is not ready afterwards, on every adapter and
\* whatever the index was before the build started.
C11_RaisedBuildNotReady ==
    [][\A t \in Tasks :
          ResumesRaisedBuild(t)
          => LET key == TopicKey(tasks[t].topic) IN
             /\ ~gh'.building_index /\ ~gh'.rag_ready
             /\ ~c7'.building_index[key] /\ ~c7'.rag_indices[key].ready
             /\ ~kb'.building_index /\ ~kb'.rag_ready]_vars

\* C12: once a build of the KnowledgeBase has seen absent or empty dense
\* embeddings, use_embeddings is false in every later state, no further index
\* build is started on the instance, and every later search is answered by the
\* keyword search (a search that has a query and documents returns keyword results,
\* none returns index results or raises).
C12_EmbeddingsStayOff ==
    /\ [](kb.dense_unavailable
          => /\ ~kb.use_embeddings
             /\ \A t \in Tasks : ~InFlight(tasks[t]) /\ tasks[t].pc # "rag")
    /\ [][kb.dense_unavailable
          => \A t \in Tasks :
                /\ ~StartsBuild(t)
                /\ (tasks[t].pc # "ret" /\ tasks'[t].pc = "ret" /\ tasks'[t].op = "search")
                   => /\ tasks'[t].result.kind \in {"keyword", "empty"}
                      /\ (Sequential /\ tasks'[t].qlen > 0)
                         => tasks'[t].result = KeywordResult(kb.index)]_vars

\* a search issued after the build that found no dense embeddings has returned
\* keyword results without starting a build
C12_Witness ==
    /\ kb.dense_unavailable /\ Sequential
    /\ \E t \in Tasks :
          /\ tasks[t].pc = "ret" /\ tasks[t].op = "search" /\ tasks[t].builds = 0
          /\ tasks[t].qlen > 0 /\ tasks[t].result = KeywordResult(kb.index)

\* the step ends the retrieval of task t's fetch with a failure: no text was received
RetrievalFails(t) ==
    tasks[t].pc = "http" /\ tasks'[t].pc # "http" /\ tasks'[t].content = NoText

C14_FetchReturnsRetrieved ==
    \A t \in Tasks :
        LET tk == tasks[t] IN
        (/\ Sequential
         /\ tk.pc = "ret" /\ tk.op = "fetch" /\ tk.req /\ tk.content # NoText)
        => /\ tk.result = TextResult(tk.content)
           /\ gh.cache_enabled => gh.cache = tk.content

\* C15: a fetch with the cache disabled (use_cache false, or set_cache_enabled(false))
\* bypasses the cache and performs the retrieval, and when the retrieval succeeds
\* the cached value of the key is overwritten: it is the text retrieved last.
C15_DisabledCacheOverwrites ==
    \A t \in Tasks :
        LET tk == tasks[t] IN
        (/\ Sequential
         /\ tk.pc = "ret" /\ tk.op = "fetch"
         /\ ~tk.use_cache \/ ~gh.cache_enabled)
        => /\ tk.req
           /\ tk.result = TextResult(tk.content) => gh.cache = tk.content

\* C16: the search of an adapter never raises to its caller: a transport failure,
\* missing content, a failure of the index build (an exception inside the
\* offloaded build included) and a failure of the query execution each give an
\* empty or a keyword result list.
C16_SearchNeverRaises ==
    \A t \in Tasks :
        (tasks[t].pc = "ret" /\ tasks[t].op = "search")
        => tasks[t].result.kind \in {"empty", "keyword", "rag"}

\* C17: when query expansion, the index search of a variation, deduplication or
\* formatting raises, search returns the keyword result for the same query and
\* content and the exception does not leave search.
C17_QueryFailureFallsBack ==
    \A t \in Tasks :
        LET tk == tasks[t] IN
        (tk.pc = "ret" /\ tk.op = "search" /\ tk.outcome = "raise")
        => tk.result = KeywordResult(IF tk.content # NoText THEN tk.content ELSE kb.index)

\* a search whose query execution raised has returned keyword results
C17_Witness ==
    \E t \in Tasks :
        /\ tasks[t].pc = "ret" /\ tasks[t].op = "search" /\ tasks[t].outcome = "raise"
        /\ tasks[t].result.kind = "keyword" /\ tasks[t].content \in 1..MaxText
        /\ gh.rag_ready /\ gh.search_engine.load = "full"

\* C19: on every adapter a search with a query of fewer than 2 characters returns
\* the empty result list without fetching content, building an index or running
\* any search.
C19_ShortQueryRejected ==
    \A t \in Tasks :
        LET tk == tasks[t] IN
        (Sequential /\ tk.op = "search" /\ tk.qlen < 2)
        => /\ tk.pc = "ret" /\ tk.result = EmptyResult
           /\ ~tk.req /\ tk.builds = 0 /\ tk.content = NoText


\* the texts a tool handler returns
ReplyTexts == {"short", "overview", "nofetch", "nohits", "snippets", "error"}

\* the adapter call a handler awaits hands over its value or its exception
HandsOver(t) ==
    tasks[t].handler # "none" /\ tasks[t].pc = "ret" /\ tasks'[t] # tasks[t]

\* C18: every invocation of a tool handler ends with a text: a handler that has
\* replied has returned one of its texts, no exception leaves it, and an exception
\* of the adapter call it awaited is reported as an "Error ..." text.
C18_HandlersReturnText ==
    /\ [](\A t \in Tasks : tasks[t].pc = "replied" => tasks[t].reply \in ReplyTexts)
    /\ [][\A t \in Tasks :
            (HandsOver(t) /\ tasks[t].result.kind = "raise")
            => (tasks'[t].pc = "replied" /\ tasks'[t].reply = "error")]_vars

C18_Witness ==
    \E t \in Tasks :
        /\ tasks[t].handler = "readme" /\ tasks[t].pc = "replied"
        /\ tasks[t].result.kind = "raise" /\ tasks[t].reply = "error"

\* a tool handler is running with a query of fewer than 2 characters
ShortQuery(tk) == tk.handler # "none" /\ tk.qlen < 2

\* C20 as stated: whatever the handler, a query of fewer than 2 characters (after
\* trimming) is answered with the "must be at least 2 characters" error, with no
\* adapter call.
C20_ShortQueryAlwaysRejected ==
    \A t \in Tasks :
        ShortQuery(tasks[t])
        => /\ tasks[t].pc = "replied" /\ tasks[t].reply = "short"
           /\ tasks[t].op = "none" /\ tasks[t].adapter = "none"

\* C20, amended: the knowledge-base and Context7 handlers answer a query of fewer
\* than 2 characters with the "must be at least 2 characters" error and call no
\* adapter; the README handler answers it by fetching the README, never searching,
\* and returns the overview of the fetched text, or "Error: Could not fetch README
\* from GitHub." when the fetch returned the empty text.
C20_ShortQueryHandled ==
    \A t \in Tasks :
        LET tk == tasks[t] IN
        ShortQuery(tk)
        => IF tk.handler = "readme"
           THEN /\ tk.op = "fetch"
                /\ tk.pc = "replied"
                   => tk.reply = IF tk.result.text = EmptyText THEN "nofetch"
                                 ELSE "overview"
           ELSE /\ tk.pc = "replied" /\ tk.reply = "short"
                /\ tk.op = "none" /\ tk.adapter = "none"

C20_Witness ==
    \E t, u \in Tasks :
        /\ ShortQuery(tasks[t]) /\ tasks[t].handler = "readme"
        /\ tasks[t].pc = "replied" /\ tasks[t].reply = "overview"
        /\ ShortQuery(tasks[u]) /\ tasks[u].handler \in {"knowledge", "context7"}
        /\ tasks[u].reply = "short"


\* a call of _rag_search has deduplicated its candidates
Deduplicated == calc.fn = "rag_search" /\ calc.pc \in {"deduped", "done"}

\* C21: the output of _deduplicate_results has no two results with the same
\* fingerprint (the chunk id standing for an absent fingerprint); each retained
\* result is one of the candidates and no candidate of its fingerprint has a
\* higher score; every fingerprint of a candidate is retained.
C21_DeduplicationKeepsBest ==
    Deduplicated
    => LET a == calc.aggregated
           d == calc.deduped
       IN  /\ \A i, j \in 1..Len(d) :
                 i # j => FingerprintOf(d[i]) # FingerprintOf(d[j])
           /\ \A i \in 1..Len(d) :
                 /\ \E k \in 1..Len(a) : a[k] = d[i]
                 /\ \A k \in 1..Len(a) :
                       FingerprintOf(a[k]) = FingerprintOf(d[i])
                       => a[k].score <= d[i].score
           /\ \A k \in 1..Len(a) :
                 \E i \in 1..Len(d) : FingerprintOf(d[i]) = FingerprintOf(a[k])

C21_Witness ==
    /\ Deduplicated
    /\ Len(calc.aggregated) = 3 /\ Len(calc.deduped) = 2
    /\ calc.aggregated[1].fingerprint = "" /\ calc.aggregated[1].chunk_id = "f1"
    /\ calc.aggregated[3].fingerprint = "f1"
    /\ calc.aggregated[3].score > calc.aggregated[1].score
    /\ \E i \in 1..2 : calc.deduped[i] = calc.aggregated[3]


\* a call of _rag_search or _search_keyword has returned its list
Ranked == calc.fn \in {"rag_search", "search_keyword"} /\ calc.pc = "done"

\* C22: in the list returned on the index path and on the keyword-fallback path
\* of any adapter, each result's score is at least the score of the next one.
C22_ScoresDescend ==
    Ranked => \A i \in 1..(Len(calc.out) - 1) : calc.out[i].score >= calc.out[i + 1].score

C22_Witness ==
    /\ Ranked /\ calc.fn = "search_keyword" /\ calc.adapter = "kb"
    /\ Len(calc.index) = 3 /\ Len(calc.out) = 2
    /\ calc.out[1].score > calc.out[2].score
    /\ calc.out[1].path = calc.index[3].path
    /\ calc.out[2].path = calc.index[1].path


\* the fingerprints of the candidates of the call, and how many of them have a
\* candidate of score v or more
Groups == {FingerprintOf(calc.aggregated[k]) : k \in 1..Len(calc.aggregated)}

GroupsFrom(v) ==
    Cardinality({FingerprintOf(calc.aggregated[k]) :
                    k \in {j \in 1..Len(calc.aggregated) : calc.aggregated[j].score >= v}})

Smaller(m, n) == IF m < n THEN m ELSE n

\* C23: _rag_search returns min(max_results, number of distinct fingerprints)
\* results, never more than max_results, and they are the best of the
\* deduplicated candidates of all variations: for every score v, as many returned
\* results have a score of v or more as there are fingerprints with such a
\* candidate, up to the length of the list.
C23_TopResultsReturned ==
    (calc.fn = "rag_search" /\ calc.pc = "done")
    => /\ Len(calc.out) = Smaller(calc.max_results, Cardinality(Groups))
       /\ Len(calc.out) <= calc.max_results
       /\ \A v \in 1..MaxScore :
             Cardinality({i \in 1..Len(calc.out) : calc.out[i].score >= v})
                = Smaller(Len(calc.out), GroupsFrom(v))

C23_Witness ==
    /\ calc.fn = "rag_search" /\ calc.pc = "done"
    /\ calc.variations = 2 /\ calc.max_results = 2
    /\ Cardinality(Groups) = 3 /\ Len(calc.out) = 2
    /\ calc.aggregated[1].score < calc.aggregated[3].score
    /\ calc.out[2].score > calc.aggregated[1].score


\* C24: the list _search_keyword returns, on every adapter: no result has score
\* zero, the scores are in descending order, and the list has at most max_results
\* entries.
C24_KeywordFallbackBounded ==
    (calc.fn = "search_keyword" /\ calc.pc = "done")
    => /\ \A i \in 1..Len(calc.out) : calc.out[i].score > 0
       /\ \A i \in 1..(Len(calc.out) - 1) : calc.out[i].score >= calc.out[i + 1].score
       /\ Len(calc.out) <= calc.max_results


\* every place where sub occurs in str counts as an occurrence
EveryOccurrence(str, sub) == Cardinality(Matches(str, sub, 1))

\* the largest number of occurrences of sub in str no two of which overlap
DisjointOccurrences(str, sub) ==
    LET sets == {S \in SUBSET Matches(str, sub, 1) :
                    \A i, j \in S : i < j => i + Len(sub) <= j}
    IN  CHOOSE n \in 0..Len(str) :
            /\ \E S \in sets : Cardinality(S) = n
            /\ \A S \in sets : Cardinality(S) <= n

\* The keyword score as section 4.5 words it, the occurrences of a term in the
\* text being counted every one when `every` is true, the non-overlapping ones
\* when it is false.
StatedScore(every, adapter, query, doc) ==
    LET occurrences(str, sub) == IF every THEN EveryOccurrence(str, sub)
                                 ELSE DisjointOccurrences(str, sub)
        sought == Lower(query)
        text == Lower(doc.content)
        terms == Split(sought)
        lines == SplitLines(doc.content)
        occurs(sub, str) == \E i \in 1..(Len(str) - Len(sub) + 1) :
                               \A j \in 1..Len(sub) : str[i + j - 1] = sub[j]
        has_term(str) == \E k \in 1..Len(terms) : occurs(terms[k], str)
        per_term == [k \in 1..Len(terms) |-> occurrences(text, terms[k])]
        total == IF Len(terms) = 0 THEN 0
                 ELSE IF Len(terms) = 1 THEN per_term[1]
                 ELSE IF Len(terms) = 2 THEN per_term[1] + per_term[2]
                 ELSE per_term[1] + per_term[2] + per_term[3]
    IN  (IF occurs(sought, text) THEN 10 ELSE 0)
        + total
        + (IF adapter = "kb" /\ has_term(Lower(doc.path)) THEN 5 ELSE 0)
        + (IF adapter = "kb"
           THEN 3 * Cardinality({k \in 1..Len(lines) :
                                    /\ k <= HeadingLines
                                    /\ IsHeading(lines[k])
                                    /\ has_term(Lower(lines[k]))})
           ELSE 0)

\* the score _search_keyword gave the one document of the call: a document of
\* score zero is left out of the list
ReturnedScore == IF calc.out = <<>> THEN 0 ELSE calc.out[1].score

Scored == calc.fn = "search_keyword" /\ calc.pc = "done" /\ Len(calc.index) = 1

\* C25 as stated: the keyword score is 10 for the full query as a substring plus,
\* for each term, the number of its occurrences in the text, every occurrence
\* counted; KnowledgeBase adds 5 for a term in the name and 3 for each heading
\* among the first 20 lines that holds a term.
C25_ScoreCountsEveryOccurrence ==
    Scored => ReturnedScore = StatedScore(TRUE, calc.adapter, calc.query,
                                          calc.index[1])

\* C25, amended: the same score with, for each term, the number of its
\* non-overlapping occurrences in the text.
C25_ScoreCountsDisjointOccurrences ==
    Scored => ReturnedScore = StatedScore(FALSE, calc.adapter, calc.query,
                                          calc.index[1])

C25_Witness ==
    /\ Scored /\ calc.adapter = "kb"
    /\ calc.query = <<"A", "a">> /\ calc.index[1].content = <<"a", "a", "A">>
    /\ calc.index[1].path = <<"A">>
    /\ ReturnedScore = 11
    /\ EveryOccurrence(Lower(calc.index[1].content), Lower(calc.query)) = 2


\* a search of the one document of the call has returned it
Found ==
    /\ calc.fn \in {"search", "search_keyword"} /\ calc.pc = "done"
    /\ Len(calc.index) = 1 /\ Len(calc.out) = 1

\* the query occurs in the document, whatever the case of the letters
QueryOccurs == Matches(Lower(calc.index[1].content), Lower(calc.query), 1) # {}

\* the place of the first match, the number of the line it is in, the numbers of
\* the first and last line of the window of three lines around it
FirstMatch == Least(Matches(Lower(calc.index[1].content), Lower(calc.query), 1))

MatchedLine ==
    1 + Cardinality({i \in 1..(FirstMatch - 1) : calc.index[1].content[i] = "\n"})

WindowFirst == IF MatchedLine > ContextLines THEN MatchedLine - ContextLines ELSE 1

WindowLast ==
    Smaller(MatchedLine + ContextLines, Len(SplitLines(calc.index[1].content)))

\* the text of the window: its lines, joined by line breaks
WindowText == JoinLines(SubSeq(SplitLines(calc.index[1].content), WindowFirst, WindowLast))

\* the line in which the query first matches, and the place in the window text
\* where that line ends
LineOfMatch == SplitLines(calc.index[1].content)[MatchedLine]

LineEnd == Len(JoinLines(SubSeq(SplitLines(calc.index[1].content), WindowFirst, MatchedLine)))

\* KnowledgeBase.search without embeddings has returned, the document contains
\* the query and max_results leaves room for it
SearchedContaining ==
    /\ calc.fn = "search" /\ calc.pc = "done"
    /\ QueryOccurs
    /\ calc.max_results >= 1

\* the document is returned with a score of at least 10
DocumentReturned ==
    /\ Len(calc.out) = 1
    /\ calc.out[1].path = calc.index[1].path
    /\ calc.out[1].score >= 10

\* C26 as stated: with embeddings disabled, a document that contains the query,
\* case-insensitively, is returned (when max_results leaves room) with a score of
\* at least 10 and a snippet that contains the line of the first match.
C26_ContainingDocumentReturned ==
    SearchedContaining
    => (DocumentReturned /\ Contains(calc.out[1].snippet, LineOfMatch))

\* C26: with embeddings disabled, a document that contains a query that is not
\* blank is returned (when max_results leaves room) with a score of at least 10;
\* its snippet contains the line of the first match when that line ends within
\* the first 500 characters of the window text, and is otherwise the first 500
\* characters of the window text followed by "...".
C26_NonBlankQueryFindsDocument ==
    (SearchedContaining /\ ~Blank(calc.query))
    => /\ DocumentReturned
       /\ IF LineEnd <= SnippetLimit
          THEN Contains(calc.out[1].snippet, LineOfMatch)
          ELSE calc.out[1].snippet =
                  SubSeq(WindowText, 1, SnippetLimit) \o <<".", ".", ".">>

\* a document of two lines is found by a query in another case; the window text
\* is longer than 500 characters and the snippet, cut at 500, holds the line
C26_Witness ==
    /\ SearchedContaining /\ DocumentReturned
    /\ calc.query = <<"A">>
    /\ Len(WindowText) > SnippetLimit
    /\ LineEnd <= SnippetLimit
    /\ Contains(calc.out[1].snippet, LineOfMatch)

\* C27: when the query matches, a window text of 500 characters or fewer is the
\* snippet, with no marker; a longer window text gives its first 500 characters
\* followed by "...".
C27_SnippetTruncatedOver500 ==
    (Found /\ QueryOccurs)
    => calc.out[1].snippet =
          IF Len(WindowText) <= SnippetLimit THEN WindowText
          ELSE SubSeq(WindowText, 1, SnippetLimit) \o <<".", ".", ".">>


\* the fields of a SearchResult
SearchResultFields == {"path", "type", "snippet", "full_content", "score", "metadata"}

\* C28: every result returned on the index path and on the keyword-fallback path
\* of any adapter has the six fields path, type, snippet, full_content, score and
\* metadata.
C28_ResultsCarryAllFields ==
    Ranked => \A i \in 1..Len(calc.out) : DOMAIN calc.out[i] = SearchResultFields

\* the step is the index build of task t, whose call follows a call on another
\* cache key of the same topic (another token budget) that returned with the
\* topic's index ready and built from its content
BuildsAfterOtherKey(t) ==
    /\ Sequential
    /\ tasks[t].pc = "build" /\ tasks'[t].pc = "built"
    /\ hist.valid /\ hist.ready
    /\ TopicKey(hist.topic) = TopicKey(tasks[t].topic)
    /\ hist.tokens # tasks[t].tokens
    /\ c7.rag_indices[TopicKey(hist.topic)].chunks = hist.content

\* C29: a build of the index for the content of one cache key of Context7Search
\* leaves in place the index that was built from the content of another cache key.
C29_BuildKeepsOtherKeysIndex ==
    [][\A t \in Tasks :
          BuildsAfterOtherKey(t)
          => c7'.rag_indices[TopicKey(hist.topic)] = c7.rag_indices[TopicKey(hist.topic)]]_vars

\* C30: a KnowledgeBase instance whose directory holds documents reads them at
\* most once, however its initialize() and search() calls interleave.
C30_DirectoryReadOnce == kb.dir \notin {NoText, EmptyText} => kb.reads <= 1

\* the *.md files of the directory that can be read and are not empty
Indexable == {k \in 1..Len(calc.files) : calc.files[k].readable /\ calc.files[k].text # <<>>}

\* C31: after initialize() has returned the instance is marked initialized and
\* its document list has exactly one entry for every readable, non-empty *.md
\* file and no other entry; with a missing directory the list is empty.
C31_InitializeIndexesReadableFiles ==
    \A t \in Tasks :
        (calc.fn = "initialize" /\ calc.at[t].pc = "done")
        => /\ calc.initialized
           /\ Len(calc.index) = Cardinality(Indexable)
           /\ \A k \in Indexable :
                 Cardinality({i \in 1..Len(calc.index) :
                                 calc.index[i] = Doc(FileName(k), calc.files[k].text)}) = 1
           /\ ~calc.exists => calc.index = <<>>

\* a directory of three files, the second empty: both callers have returned
\* and the list holds the first and the third
C31_Witness ==
    /\ calc.fn = "initialize"
    /\ \A t \in Tasks : calc.at[t].pc = "done"
    /\ calc.files = <<File(<<"a">>), File(<<>>), File(<<"a">>)>>
    /\ Len(calc.index) = 2
    /\ calc.index[2].path = FileName(3)

\* what the calls of an accessor returned, to any caller
Returns(adapter) ==
    UNION {{calc.got[t][i].instance :
               i \in {j \in 1..Len(calc.got[t]) : calc.got[t][j].adapter = adapter}} :
           t \in Tasks}

\* C32: each accessor constructs at most one instance and every call of it
\* returns that one instance, never None.
C32_OneInstancePerAdapter ==
    calc.fn = "get"
    => \A adapter \in {"gh", "c7"} :
          /\ calc.created[adapter] <= 1
          /\ None \notin Returns(adapter)
          /\ Cardinality(Returns(adapter)) <= 1

\* both callers have called both accessors
C32_Witness ==
    /\ calc.fn = "get"
    /\ \A t \in Tasks : Len(calc.got[t]) = 2 /\ calc.got[t][1].adapter # calc.got[t][2].adapter
    /\ calc.created = [a \in {"gh", "c7"} |-> 1]

\* main, lines 491-495: initialize_knowledge_base raised and main has called
\* sys.exit(1).  The bot token was present: create_bot_config (line 487) has
\* returned before the knowledge base is initialized.
Exited ==
    \E t \in Tasks :
        tasks[t].pc = "ret" /\ tasks[t].op = "init" /\ tasks[t].result = RaisedResult

\* C33: with the bot token present the process does not exit, whatever fails
\* during startup or while the bot runs.
C33_ExitOnlyWithoutToken == ~Exited

\* C34: an invocation of the README tool with use_cache=false, whatever its
\* query, goes to the remote source for the README; one with use_cache=true
\* takes the cached README when there is one.
C34_UseCacheHonoured ==
    [][\A t \in Tasks, qlen \in QueryLengths :
          /\ ReadmeHandler(t, qlen, FALSE) => tasks'[t].pc = "http"
          /\ (ReadmeHandler(t, qlen, TRUE) /\ gh.cache_enabled /\ gh.cache # NoText)
             => tasks'[t].pc # "http"]_vars

\* a call of Context7Search.search by task t has returned a value
SearchReturnedValue(t) ==
    tasks[t].op = "search" /\ tasks[t].pc = "ret" /\ tasks[t].result.kind # "raise"

\* the request of the call failed, so that the remote source gave it nothing
RemoteUnavailable(t) == Sequential /\ tasks[t].req /\ tasks[t].content = NoText

\* C35 as stated: the value Context7Search.search returns for a query of two
\* characters or more is a string.
C35_SearchReturnsString ==
    \A t \in Tasks :
        (SearchReturnedValue(t) /\ tasks[t].qlen >= 2) => tasks[t].result.kind = "text"

\* C35: the value Context7Search.search returns, for any query, is a list of
\* results, the empty list when the remote source is unavailable.
C35_SearchReturnsList ==
    \A t \in Tasks :
        SearchReturnedValue(t)
        => /\ tasks[t].result.kind \in {"empty", "keyword", "rag"}
           /\ RemoteUnavailable(t) => tasks[t].result.kind = "empty"

C35_Witness ==
    \E t \in Tasks :
        /\ SearchReturnedValue(t) /\ RemoteUnavailable(t)
        /\ tasks[t].qlen = 2
        /\ tasks[t].result = EmptyResult


\* C36: with embeddings enabled at construction, a search of the knowledge base
\* for a non-blank query over a directory with documents returns the results of
\* the index or, when the index is not ready, its search raises or it gives no
\* results, the list of the keyword search (which holds every document of
\* non-zero keyword score up to max_results)
EmbeddingsEnabled == kb.use_embeddings \/ kb.dense_unavailable

C36_FallsBackToKeyword ==
    \A t \in Tasks :
        (/\ tasks[t].op = "search" /\ tasks[t].pc = "ret" /\ tasks[t].qlen > 0
         /\ EmbeddingsEnabled /\ kb.dir \notin {NoText, EmptyText})
        => tasks[t].result.kind \in {"keyword", "rag"}


\* the place in the aggregated candidates of the candidate that a result of the
\* deduplication is: the first one of its fingerprint with its score
EncounteredAt(result) ==
    LET at == {i \in 1..Len(calc.aggregated) :
                  /\ FingerprintOf(calc.aggregated[i]) = FingerprintOf(result)
                  /\ calc.aggregated[i].score = result.score}
    IN  CHOOSE i \in at : \A j \in at : i <= j

\* the place in the aggregated candidates where the fingerprint of a result was
\* met first
FirstSeenAt(result) ==
    LET at == {i \in 1..Len(calc.aggregated) :
                  FingerprintOf(calc.aggregated[i]) = FingerprintOf(result)}
    IN  CHOOSE i \in at : \A j \in at : i <= j

\* C37 as stated: of two results of the deduplication with the same score, the
\* one whose candidate was encountered earlier among the aggregated candidates
\* comes first
C37_TiesKeepEncounterOrder ==
    Deduplicated
    => \A i, j \in 1..Len(calc.deduped) :
          (i < j /\ calc.deduped[i].score = calc.deduped[j].score)
          => EncounteredAt(calc.deduped[i]) < EncounteredAt(calc.deduped[j])

\* C37: of two results of the deduplication with the same score, the one whose
\* fingerprint was met earlier among the aggregated candidates comes first
C37_TiesKeepFirstSeenOrder ==
    Deduplicated
    => \A i, j \in 1..Len(calc.deduped) :
          (i < j /\ calc.deduped[i].score = calc.deduped[j].score)
          => FirstSeenAt(calc.deduped[i]) < FirstSeenAt(calc.deduped[j])

\* two results tie, and the first of them replaced a lower candidate of its
\* fingerprint after the candidate of the second had been met
C37_Witness ==
    /\ Deduplicated
    /\ Len(calc.deduped) = 2
    /\ calc.deduped[1].score = calc.deduped[2].score
    /\ FirstSeenAt(calc.deduped[1]) < EncounteredAt(calc.deduped[2])
    /\ EncounteredAt(calc.deduped[2]) < EncounteredAt(calc.deduped[1])


\* C38: once clear_cache has run on the README adapter, the index build of a
\* call that was under way when it ran (so also a build that was in the executor
\* then) does not mark an index ready, and does not raise unless the chunker, the
\* embedder or the index raises
C38_ClearOutlastsBuildUnderWay ==
    [][\A t \in Tasks :
          (tasks[t].cleared /\ InFlight(tasks[t]) /\ tasks'[t] # tasks[t])
          => /\ gh'.rag_ready => gh.rag_ready
             /\ GH_BuildAddBegin(t, FALSE) => tasks'[t].outcome # "raise"]_vars


\* C39: a fetch of the Context7 adapter whose request fails leaves the adapter
\* as it was: neither the step that sends the request nor the step that
\* handles the failure changes the cached text of any key, the index of any
\* key, a ready flag or a building flag
C39_FailedFetchKeepsState ==
    [][\A t \in Tasks :
          ((tasks[t].pc = "idle" /\ tasks'[t].pc = "http") \/ C7_ResponseError(t))
          => c7' = c7]_vars

\* the same of the README adapter
C39_FailedFetchKeepsReadmeState ==
    [][\A t \in Tasks :
          ((tasks[t].pc = "idle" /\ tasks'[t].pc = "http") \/ GH_ResponseError(t))
          => gh' = gh]_vars

\* a fetch has failed on an adapter that holds a cached text and a ready index
C39_Witness ==
    \E t \in Tasks :
        /\ Sequential
        /\ tasks[t].op = "fetch" /\ tasks[t].pc = "ret"
        /\ tasks[t].req /\ tasks[t].content = NoText
        /\ tasks[t].result = TextResult(EmptyText)
        /\ \E k \in CacheKeys : c7.cache[k] \notin {NoText, EmptyText}
        /\ \E k \in TopicKeys : c7.rag_indices[k].ready


\* a search call is under way
Searching(t) == tasks[t].op = "search" /\ tasks[t].pc \notin {"idle", "ret"}

\* C40: when the file reads, the chunker, the embedder and the index return or
\* raise in finite time, every search call of the knowledge base comes to its
\* end (it hands a value or an exception to its caller), and the building flag,
\* once set, is reset again: after a build that succeeded, one that left early
\* and one that raised
C40_SearchEndsAndFlagIsReset ==
    /\ \A t \in Tasks : Searching(t) ~> (tasks[t].pc = "ret")
    /\ kb.building_index ~> ~kb.building_index

\* the same of the README adapter, under LiveGH
C40_ReadmeSearchEndsAndFlagIsReset ==
    /\ \A t \in Tasks : Searching(t) ~> (tasks[t].pc = "ret")
    /\ gh.building_index ~> ~gh.building_index

\* the same of the Context7 adapter and the flag of every topic, under LiveC7
C40_Context7SearchEndsAndFlagIsReset ==
    /\ \A t \in Tasks : Searching(t) ~> (tasks[t].pc = "ret")
    /\ \A k \in TopicKeys : c7.building_index[k] ~> ~c7.building_index[k]

\* a search has ended after the build it awaited raised, and the flag is reset
C40_Witness ==
    \E t \in Tasks :
        /\ tasks[t].op = "search" /\ tasks[t].pc = "ret"
        /\ tasks[t].builds = 1
        /\ tasks[t].result = RaisedResult
        /\ ~kb.building_index

====
